---- MODULE Spec2Model ----
(***************************************************************************)
(* A model of the CHIP-8 interpreter of src/src/chip_8: the Chip8 struct,  *)
(* its lifecycle methods initialize / load_program / cycle, the decoder    *)
(* Instruction::new, the stack, and the execution of every instruction.    *)
(*                                                                         *)
(* Conventions.                                                            *)
(*  - chip8 is the Chip8 struct, one record field per struct field.  The   *)
(*    two channel handles are modelled by the content of their channel:    *)
(*    frame_handle is the sequence of frames sent and not yet received,    *)
(*    input_handle the sequence of host messages sent and not yet read.    *)
(*    frame_peer and input_peer say what the handle is connected to:       *)
(*    "None" when the Option is None (Chip8::default), "Connected" when    *)
(*    the host holds the other end of the channel, "Disconnected" when the *)
(*    host has dropped it.                                                 *)
(*  - A method is an operator from the struct (and its arguments) to a     *)
(*    record [self |-> the struct afterwards, ret |-> the value returned]. *)
(*  - A Rust panic is the return value Panic.  A panic unwinds out of the  *)
(*    call and ends the thread that owns the struct, so after it no        *)
(*    operation is enabled and chip8 keeps its value from before the call. *)
(*    Where a method panics on its channel, the struct it returns beside   *)
(*    Panic is the one the assignments made before the panic have left.    *)
(*  - Option<u8>::None is the integer None (-1); Some(k) is k.             *)
(***************************************************************************)
EXTENDS Integers, Sequences, FiniteSets, TLC

VARIABLES
    chip8,          \* the Chip8 struct
    op,             \* the operation performed last
    result,         \* what that operation returned
    prior_state,    \* the lifecycle state in which the latest method call was made
    initialized,    \* initialize() has been called at least once
    program_bytes,  \* the argument of the latest load_program() since initialize()
    loads,          \* number of load_program() calls since initialize()
    cycle_count,    \* fetches made by cycle() since the latest initialize()
    since_load,     \* of these, the ones made since the latest load_program()
    run_ok,         \* every cycle() since the latest load_program() returned Ok
    call_stack,     \* history: the pushes of Call not yet popped by a Return
    raw,            \* input of the decoder specification: a 16-bit word
    decoded,        \* output of the decoder specification
    main,           \* main.rs: the game thread, the render loop, the mutex, the signal channel
    ticks,          \* history: times the two timers have been decremented
    held_cycles     \* history: cycle() calls made under the game thread's current lock

vars == << chip8, op, result, prior_state, initialized, program_bytes, loads, cycle_count,
           since_load, run_ok, call_stack, raw, decoded, main, ticks, held_cycles >>

(***************************************************************************)
(* Program constants.                                                      *)
(***************************************************************************)
WIDTH == 64
HEIGHT == 32
PROGRAM_OFFSET == 512
FONT_SET_OFFSET == 80
MEMORY_SIZE == 4096
STACK_WINDOW_BOTTOM == 510
STACK_WINDOW_TOP == 0

FONT_SET ==
    << 240, 144, 144, 144, 240,    32,  96,  32,  32, 112,
       240,  16, 240, 128, 240,   240,  16, 240,  16, 240,
       144, 144, 240,  16,  16,   240, 128, 240,  16, 240,
       240, 128, 240, 144, 240,   240,  16,  32,  64,  64,
       240, 144, 240, 144, 240,   240, 144, 240,  16, 240,
       240, 144, 240, 144, 144,   224, 144, 224, 144, 224,
       240, 128, 128, 128, 240,   224, 144, 144, 144, 224,
       240, 128, 240, 128, 240,   240, 128, 240, 128, 128 >>

None == -1

(***************************************************************************)
(* Bounds of the model.                                                    *)
(***************************************************************************)
MaxLoads == 2       \* load_program() calls between two initialize() calls
MaxCycles == 3      \* cycle() calls between two initialize() calls
MaxQueue == 1       \* host messages waiting in the input channel
MaxFrames == 1      \* frames waiting in the frame channel

(***************************************************************************)
(* Unsigned machine arithmetic: the operators &, |, ^, >> and << of Rust   *)
(* on u8 / u16 values, bit by bit.                                         *)
(***************************************************************************)
RECURSIVE BitAnd(_, _)
BitAnd(a, b) ==
    IF a = 0 \/ b = 0 THEN 0
    ELSE (IF a % 2 = 1 /\ b % 2 = 1 THEN 1 ELSE 0) + 2 * BitAnd(a \div 2, b \div 2)

RECURSIVE BitOr(_, _)
BitOr(a, b) ==
    IF a = 0 THEN b
    ELSE IF b = 0 THEN a
    ELSE (IF a % 2 = 1 \/ b % 2 = 1 THEN 1 ELSE 0) + 2 * BitOr(a \div 2, b \div 2)

RECURSIVE BitXor(_, _)
BitXor(a, b) ==
    IF a = 0 THEN b
    ELSE IF b = 0 THEN a
    ELSE (IF a % 2 # b % 2 THEN 1 ELSE 0) + 2 * BitXor(a \div 2, b \div 2)

Shr(a, k) == a \div (2 ^ k)

\* a << k in a type of the given width: the bits shifted out are lost
Shl(a, k, width) == (a * (2 ^ k)) % (2 ^ width)

wrapping_add(a, b) == (a + b) % 256
wrapping_sub(a, b) == (a - b + 256) % 256
\* checked_add(..).is_none() and checked_sub(..).is_none()
checked_add_is_none(a, b) == a + b > 255
checked_sub_is_none(a, b) == a - b < 0

(***************************************************************************)
(* Return values: Result<(), Chip8Error>, and Panic.                       *)
(***************************************************************************)
Ok == [tag |-> "Ok"]
Err(e) == [tag |-> "Err", error |-> e]
InvalidInstruction(instruction) ==
    [tag |-> "Err", error |-> "InvalidInstruction", instruction |-> instruction]
Panic == [tag |-> "Panic"]

(***************************************************************************)
(* Instruction::new: the decoder.  It returns either                       *)
(* [tag |-> "Ok", instruction |-> a record naming the variant and holding  *)
(* its operands] or an Err value.                                          *)
(***************************************************************************)
Decoded(instruction) == [tag |-> "Ok", instruction |-> instruction]

\* A faulty operand_vx, for testing what the decoder properties detect: the
\* shift is forgotten, so the cast to u8 keeps the low byte of raw & 0x0F00.
operand_vx_without_shift(w) == BitAnd(w, 3840) % 256

\* the operands, extracted from the same bits of every word
operand_vx(w) == Shr(BitAnd(w, 3840), 8) % 256
operand_vy(w) == Shr(BitAnd(w, 240), 4) % 256
operand_nnn(w) == BitAnd(w, 4095)
operand_nn(w) == BitAnd(w, 255) % 256
operand_n(w) == BitAnd(w, 15) % 256

Instruction_new(w) ==
    LET first_nibble == Shr(w, 12)
        vx == operand_vx(w)
        vy == operand_vy(w)
        nnn == operand_nnn(w)
        nn == operand_nn(w)
        n == operand_n(w)
        last_byte == BitAnd(w, 255)
        last_nibble == BitAnd(w, 15)
    IN  CASE first_nibble = 0 ->
                CASE last_byte = 224 -> Decoded([name |-> "Clear"])
                  [] last_byte = 238 -> Decoded([name |-> "Return"])
                  [] OTHER -> Err("ProgramNotCompatible")
          [] first_nibble = 1 -> Decoded([name |-> "Jump", nnn |-> nnn])
          [] first_nibble = 2 -> Decoded([name |-> "Call", nnn |-> nnn])
          [] first_nibble = 3 ->
                Decoded([name |-> "SkipIfRegisterEquals", vx |-> vx, nn |-> nn])
          [] first_nibble = 4 ->
                Decoded([name |-> "SkipIfRegisterNotEquals", vx |-> vx, nn |-> nn])
          [] first_nibble = 5 ->
                Decoded([name |-> "SkipIfRegisterVxEqualsVy", vx |-> vx, vy |-> vy])
          [] first_nibble = 6 -> Decoded([name |-> "SetImmediate", vx |-> vx, nn |-> nn])
          [] first_nibble = 7 -> Decoded([name |-> "AddImmediate", vx |-> vx, nn |-> nn])
          [] first_nibble = 8 ->
                CASE last_nibble = 0 -> Decoded([name |-> "Copy", vx |-> vx, vy |-> vy])
                  [] last_nibble = 1 -> Decoded([name |-> "BitwiseOr", vx |-> vx, vy |-> vy])
                  [] last_nibble = 2 -> Decoded([name |-> "BitwiseAnd", vx |-> vx, vy |-> vy])
                  [] last_nibble = 3 -> Decoded([name |-> "BitwiseXor", vx |-> vx, vy |-> vy])
                  [] last_nibble = 4 -> Decoded([name |-> "Add", vx |-> vx, vy |-> vy])
                  [] last_nibble = 5 -> Decoded([name |-> "Subtract", vx |-> vx, vy |-> vy])
                  [] last_nibble = 6 -> Decoded([name |-> "RightShift", vx |-> vx])
                  [] last_nibble = 7 ->
                        Decoded([name |-> "SetVxToVyMinusVx", vx |-> vx, vy |-> vy])
                  [] last_nibble = 14 -> Decoded([name |-> "LeftShift", vx |-> vx])
                  [] OTHER -> InvalidInstruction(w)
          [] first_nibble = 9 ->
                Decoded([name |-> "SkipIfRegisterVxNotEqualsVy", vx |-> vx, vy |-> vy])
          [] first_nibble = 10 -> Decoded([name |-> "SetIndexRegister", nnn |-> nnn])
          [] first_nibble = 11 -> Decoded([name |-> "JumpWithPcOffset", nnn |-> nnn])
          [] first_nibble = 12 -> Decoded([name |-> "Random", vx |-> vx, nn |-> nn])
          [] first_nibble = 13 ->
                Decoded([name |-> "Draw", vx |-> vx, vy |-> vy, n |-> n])
          [] first_nibble = 14 ->
                CASE last_byte = 158 -> Decoded([name |-> "SkipIfKeyPressed", vx |-> vx])
                  [] last_byte = 161 -> Decoded([name |-> "SkipIfKeyNotPressed", vx |-> vx])
                  [] OTHER -> InvalidInstruction(w)
          [] first_nibble = 15 ->
                CASE last_byte = 7 -> Decoded([name |-> "SetVxToDelayTimer", vx |-> vx])
                  [] last_byte = 10 -> Decoded([name |-> "AwaitKeyInput", vx |-> vx])
                  [] last_byte = 21 -> Decoded([name |-> "SetDelayTimer", vx |-> vx])
                  [] last_byte = 24 -> Decoded([name |-> "SetSoundTimer", vx |-> vx])
                  [] last_byte = 30 -> Decoded([name |-> "AddToIndex", vx |-> vx])
                  [] last_byte = 41 -> Decoded([name |-> "SetIndexToFontCharacter", vx |-> vx])
                  [] last_byte = 51 -> Decoded([name |-> "SetIndexToBinaryCodedVx", vx |-> vx])
                  [] last_byte = 85 -> Decoded([name |-> "DumpRegisters", vx |-> vx])
                  [] last_byte = 101 -> Decoded([name |-> "LoadRegisters", vx |-> vx])
                  [] OTHER -> InvalidInstruction(w)
          [] OTHER -> InvalidInstruction(w)

(***************************************************************************)
(* Memory: a 4096-byte array, held as a sequence: the byte at address a is *)
(* element a + 1.  Indexing outside the array panics; the callers below    *)
(* test InBounds before every access and return Panic instead.             *)
(***************************************************************************)
Memory_default == [i \in 1 .. MEMORY_SIZE |-> 0]

InBounds(address) == address \in 0 .. MEMORY_SIZE - 1

byte(memory, address) == memory[address + 1]

set_byte(memory, address, b) == [memory EXCEPT ![address + 1] = b]

word(memory, address) ==
    BitOr(Shl(byte(memory, address), 8, 16), byte(memory, address + 1))

\* A faulty set_word, for testing what the stack properties detect: the two
\* bytes are stored low byte first.
set_word_little_endian(memory, address, w) ==
    set_byte(set_byte(memory, address, BitAnd(w, 255)), address + 1, Shr(w, 8) % 256)

set_word(memory, address, w) ==
    set_byte(set_byte(memory, address, Shr(w, 8) % 256), address + 1, BitAnd(w, 255))

\* the bytes of memory at addresses from .. to - 1
Bytes(memory, from, to) == SubSeq(memory, from + 1, to)

\* the loop writes FONT_SET[i] at FONT_SET_OFFSET + i, i = 0 .. 79
load_font_set(memory) ==
    Bytes(memory, 0, FONT_SET_OFFSET)
        \o FONT_SET
        \o Bytes(memory, FONT_SET_OFFSET + Len(FONT_SET), MEMORY_SIZE)

(***************************************************************************)
(* Screen: WIDTH * HEIGHT bytes, each 0 or 1, held as a sequence: the      *)
(* pixel at index a (= WIDTH * y + x) is element a + 1.                    *)
(***************************************************************************)
Screen_default == [i \in 1 .. WIDTH * HEIGHT |-> 0]

pixel(screen, address) == screen[address + 1]

Screen_clear(screen) == Screen_default

\* A faulty invert, for testing what the properties of Draw detect: the
\* pixel is switched on whatever it was.
Screen_invert_switching_on(screen, x, y) ==
    LET address == y * WIDTH + x
    IN  [self |-> [screen EXCEPT ![address + 1] = 1], ret |-> TRUE]

\* returns the new value of the pixel
Screen_invert(screen, x, y) ==
    LET address == y * WIDTH + x
        new_state == pixel(screen, address) # 1
    IN  [self |-> [screen EXCEPT ![address + 1] = IF new_state THEN 1 ELSE 0],
         ret |-> new_state]

(***************************************************************************)
(* The Chip8 struct as #[derive(Default)] builds it: every field at its    *)
(* Default, both handles None.  Chip8::new is the same with both handles   *)
(* Some, each connected to the end the host keeps, the channels empty.     *)
(***************************************************************************)
Chip8_default ==
    [ memory |-> Memory_default,
      screen |-> Screen_default,
      registers |-> [i \in 0 .. 15 |-> 0],
      index_register |-> 0,
      program_counter |-> 0,
      stack_pointer |-> 0,
      delay_timer |-> 0,
      sound_timer |-> 0,
      emulator_state |-> "InterpreterMemoryUninitialized",
      key_pressed |-> None,
      needs_redraw |-> FALSE,
      needs_program_restart |-> FALSE,
      frame_handle |-> << >>,
      input_handle |-> << >>,
      frame_peer |-> "None",
      input_peer |-> "None" ]

Chip8_new ==
    [Chip8_default EXCEPT !.frame_peer = "Connected", !.input_peer = "Connected"]

(***************************************************************************)
(* EmulatorState::change_states: the only refused transition is the one    *)
(* into InterpreterMemoryUninitialized, and it is refused by unreachable!. *)
(***************************************************************************)
\* A faulty change_states, for testing what the lifecycle properties detect:
\* it also refuses to enter InterpreterMemoryInitialized a second time.
change_states_forward_only(self, new_state) ==
    IF new_state = "InterpreterMemoryUninitialized"
    THEN [self |-> self, ret |-> Panic]
    ELSE IF new_state = "InterpreterMemoryInitialized"
            /\ self # "InterpreterMemoryUninitialized"
    THEN [self |-> self, ret |-> Err("InterpreterMemoryAlreadyInitialized")]
    ELSE [self |-> new_state, ret |-> Ok]

change_states(self, new_state) ==
    IF new_state = "InterpreterMemoryUninitialized"
    THEN [self |-> self, ret |-> Panic]
    ELSE [self |-> new_state, ret |-> Ok]

(***************************************************************************)
(* Chip8::initialize.  The frame is sent after the fields are reset and    *)
(* before the font is written: with no frame handle nothing is sent, and   *)
(* with the host's Receiver dropped send() fails and its unwrap() panics,  *)
(* leaving the fields reset, the memory without font and the state as it   *)
(* was.                                                                    *)
(***************************************************************************)
\* A faulty initialize, for testing what the reset properties detect: the
\* memory is not cleared before the font is written.
initialize_keeping_memory(self) ==
    LET s1 == [self EXCEPT !.screen = Screen_default,
                           !.registers = [i \in 0 .. 15 |-> 0],
                           !.index_register = 0,
                           !.program_counter = PROGRAM_OFFSET,
                           !.stack_pointer = STACK_WINDOW_BOTTOM + 1,
                           !.delay_timer = 0,
                           !.sound_timer = 0,
                           !.key_pressed = None]
        s2 == [s1 EXCEPT !.frame_handle = IF s1.frame_peer = "None" THEN @
                                           ELSE Append(@, s1.screen),
                         !.needs_program_restart = FALSE]
        s3 == [s2 EXCEPT !.memory = load_font_set(@)]
        st == change_states(s3.emulator_state, "InterpreterMemoryInitialized")
    IN  IF s1.frame_peer = "Disconnected" THEN [self |-> s1, ret |-> Panic]
        ELSE IF st.ret.tag = "Ok"
        THEN [self |-> [s3 EXCEPT !.emulator_state = st.self], ret |-> Ok]
        ELSE [self |-> s3, ret |-> st.ret]

initialize(self) ==
    LET s1 == [self EXCEPT !.memory = Memory_default,
                           !.screen = Screen_default,
                           !.registers = [i \in 0 .. 15 |-> 0],
                           !.index_register = 0,
                           !.program_counter = PROGRAM_OFFSET,
                           !.stack_pointer = STACK_WINDOW_BOTTOM + 1,
                           !.delay_timer = 0,
                           !.sound_timer = 0,
                           !.key_pressed = None]
        s2 == [s1 EXCEPT !.frame_handle = IF s1.frame_peer = "None" THEN @
                                           ELSE Append(@, s1.screen),
                         !.needs_program_restart = FALSE]
        s3 == [s2 EXCEPT !.memory = load_font_set(@)]
        st == change_states(s3.emulator_state, "InterpreterMemoryInitialized")
    IN  IF s1.frame_peer = "Disconnected" THEN [self |-> s1, ret |-> Panic]
        ELSE IF st.ret.tag = "Ok"
        THEN [self |-> [s3 EXCEPT !.emulator_state = st.self], ret |-> Ok]
        ELSE [self |-> s3, ret |-> st.ret]

(***************************************************************************)
(* Chip8::load_program: the state changes first; then the image is copied  *)
(* byte by byte from PROGRAM_OFFSET (a write past the array panics) and    *)
(* the rest of the memory is zeroed.                                       *)
(***************************************************************************)
\* A faulty load_program, for testing what the loading properties detect:
\* the memory after the image is left as it was.
load_program_without_zero_fill(self, bytes) ==
    LET st == change_states(self.emulator_state, "ProgramLoaded")
        current_memory_address == PROGRAM_OFFSET + Len(bytes)
    IN  IF st.ret.tag # "Ok" THEN [self |-> self, ret |-> st.ret]
        ELSE IF current_memory_address > MEMORY_SIZE THEN [self |-> self, ret |-> Panic]
        ELSE [self |-> [self EXCEPT
                           !.emulator_state = st.self,
                           !.memory = Bytes(@, 0, PROGRAM_OFFSET)
                                        \o bytes
                                        \o Bytes(@, current_memory_address, MEMORY_SIZE)],
              ret |-> Ok]

\* A faulty load_program, for testing what the loading properties detect:
\* the program counter is set back to PROGRAM_OFFSET.
load_program_resetting_pc(self, bytes) ==
    LET st == change_states(self.emulator_state, "ProgramLoaded")
        current_memory_address == PROGRAM_OFFSET + Len(bytes)
    IN  IF st.ret.tag # "Ok" THEN [self |-> self, ret |-> st.ret]
        ELSE IF current_memory_address > MEMORY_SIZE THEN [self |-> self, ret |-> Panic]
        ELSE [self |-> [self EXCEPT
                           !.emulator_state = st.self,
                           !.program_counter = PROGRAM_OFFSET,
                           !.memory = Bytes(@, 0, PROGRAM_OFFSET)
                                        \o bytes
                                        \o Bytes(Memory_default, current_memory_address,
                                                 MEMORY_SIZE)],
              ret |-> Ok]

load_program(self, bytes) ==
    LET st == change_states(self.emulator_state, "ProgramLoaded")
        current_memory_address == PROGRAM_OFFSET + Len(bytes)
    IN  IF st.ret.tag # "Ok" THEN [self |-> self, ret |-> st.ret]
        ELSE IF current_memory_address > MEMORY_SIZE THEN [self |-> self, ret |-> Panic]
        ELSE [self |-> [self EXCEPT
                           !.emulator_state = st.self,
                           !.memory = Bytes(@, 0, PROGRAM_OFFSET)
                                        \o bytes
                                        \o Bytes(Memory_default, current_memory_address,
                                                 MEMORY_SIZE)],
              ret |-> Ok]

(***************************************************************************)
(* The stack (stack.rs).  stack_pointer -= 2 on a pointer below 2 either   *)
(* panics (overflow checks on) or wraps to an address outside the memory,  *)
(* where set_word panics: Panic in both builds.                            *)
(***************************************************************************)
push(self, w) ==
    IF self.stack_pointer = STACK_WINDOW_TOP
    THEN [self |-> self, ret |-> Err("StackOverflow")]
    ELSE LET sp == self.stack_pointer - 2
         IN  IF sp < 0 \/ ~InBounds(sp) \/ ~InBounds(sp + 1)
             THEN [self |-> self, ret |-> Panic]
             ELSE [self |-> [self EXCEPT !.stack_pointer = sp,
                                         !.memory = set_word(@, sp, w)],
                   ret |-> Ok]

pop(self) ==
    IF self.stack_pointer = STACK_WINDOW_BOTTOM
    THEN [self |-> self, ret |-> Err("StackUnderflow"), word |-> 0]
    ELSE IF ~InBounds(self.stack_pointer) \/ ~InBounds(self.stack_pointer + 1)
    THEN [self |-> self, ret |-> Panic, word |-> 0]
    ELSE [self |-> [self EXCEPT !.stack_pointer = @ + 2],
          ret |-> Ok,
          word |-> word(self.memory, self.stack_pointer)]

(***************************************************************************)
(* The instructions (instructions/execution.rs).  An instruction that can  *)
(* neither fail nor panic maps the struct to the struct; the others return *)
(* [self, ret].                                                            *)
(***************************************************************************)
instruction_clear(self) == [self EXCEPT !.screen = Screen_clear(@)]

instruction_return(self) ==
    LET p == pop(self)
    IN  IF p.ret.tag # "Ok" THEN [self |-> self, ret |-> p.ret]
        ELSE [self |-> [p.self EXCEPT !.program_counter = p.word], ret |-> Ok]

instruction_jump(self, nnn) == [self EXCEPT !.program_counter = nnn]

instruction_call(self, nnn) ==
    LET p == push(self, self.program_counter)
    IN  IF p.ret.tag # "Ok" THEN [self |-> self, ret |-> p.ret]
        ELSE [self |-> [p.self EXCEPT !.program_counter = nnn], ret |-> Ok]

instruction_skip_if_register_equals(self, vx, nn) ==
    IF self.registers[vx] = nn
    THEN [self EXCEPT !.program_counter = @ + 2] ELSE self

instruction_skip_if_register_not_equals(self, vx, nn) ==
    IF self.registers[vx] # nn
    THEN [self EXCEPT !.program_counter = @ + 2] ELSE self

instruction_skip_if_register_vx_equals_vy(self, vx, vy) ==
    IF self.registers[vx] = self.registers[vy]
    THEN [self EXCEPT !.program_counter = @ + 2] ELSE self

instruction_set_immediate(self, vx, nn) == [self EXCEPT !.registers[vx] = nn]

\* Variant of instruction_add_immediate that leaves VF alone.
instruction_add_immediate_keeping_flag(self, vx, nn) ==
    [self EXCEPT !.registers[vx] = wrapping_add(self.registers[vx], nn)]

instruction_add_immediate(self, vx, nn) ==
    LET wrapped_sum == wrapping_add(self.registers[vx], nn)
        overflow_ocurred == checked_add_is_none(self.registers[vx], nn)
        r1 == [self.registers EXCEPT ![vx] = wrapped_sum]
    IN  [self EXCEPT !.registers = [r1 EXCEPT ![15] = IF overflow_ocurred THEN 1 ELSE 0]]

instruction_copy(self, vx, vy) == [self EXCEPT !.registers[vx] = self.registers[vy]]

instruction_bitwise_or(self, vx, vy) ==
    [self EXCEPT !.registers[vx] = BitOr(@, self.registers[vy])]

instruction_bitwise_and(self, vx, vy) ==
    [self EXCEPT !.registers[vx] = BitAnd(@, self.registers[vy])]

instruction_bitwise_xor(self, vx, vy) ==
    [self EXCEPT !.registers[vx] = BitXor(@, self.registers[vy])]

\* A faulty Add, for testing what the properties of Add detect: the carry
\* is never reported.
instruction_add_without_carry(self, vx, vy) ==
    LET wrapped_sum == wrapping_add(self.registers[vx], self.registers[vy])
        r1 == [self.registers EXCEPT ![vx] = wrapped_sum]
    IN  [self EXCEPT !.registers = [r1 EXCEPT ![15] = 0]]

\* A faulty Subtract, for testing what the properties of Subtract detect:
\* the flag is 1 when no borrow occurred.
instruction_subtract_flag_inverted(self, vx, vy) ==
    LET wrapped_sum == wrapping_sub(self.registers[vx], self.registers[vy])
        underflow_occurred == checked_sub_is_none(self.registers[vx], self.registers[vy])
        r1 == [self.registers EXCEPT ![vx] = wrapped_sum]
    IN  [self EXCEPT !.registers = [r1 EXCEPT ![15] = IF underflow_occurred THEN 0 ELSE 1]]

instruction_add(self, vx, vy) ==
    LET wrapped_sum == wrapping_add(self.registers[vx], self.registers[vy])
        overflow_ocurred == checked_add_is_none(self.registers[vx], self.registers[vy])
        r1 == [self.registers EXCEPT ![vx] = wrapped_sum]
    IN  [self EXCEPT !.registers = [r1 EXCEPT ![15] = IF overflow_ocurred THEN 1 ELSE 0]]

instruction_subtract(self, vx, vy) ==
    LET wrapped_sum == wrapping_sub(self.registers[vx], self.registers[vy])
        underflow_occurred == checked_sub_is_none(self.registers[vx], self.registers[vy])
        r1 == [self.registers EXCEPT ![vx] = wrapped_sum]
    IN  [self EXCEPT !.registers = [r1 EXCEPT ![15] = IF underflow_occurred THEN 1 ELSE 0]]

instruction_right_shift(self, vx) ==
    LET least_significant == BitAnd(self.registers[vx], 1)
        r1 == [self.registers EXCEPT ![15] = least_significant]
    IN  [self EXCEPT !.registers = [r1 EXCEPT ![vx] = Shr(@, 1)]]

\* Variant of instruction_set_vx_to_vy_minus_vx with the operands exchanged.
instruction_set_vx_to_vx_minus_vy(self, vx, vy) ==
    LET wrapped_sum == wrapping_sub(self.registers[vx], self.registers[vy])
        underflow_occured == checked_sub_is_none(self.registers[vx], self.registers[vy])
        r1 == [self.registers EXCEPT ![vx] = wrapped_sum]
    IN  [self EXCEPT !.registers = [r1 EXCEPT ![15] = IF underflow_occured THEN 1 ELSE 0]]

instruction_set_vx_to_vy_minus_vx(self, vx, vy) ==
    LET wrapped_sum == wrapping_sub(self.registers[vy], self.registers[vx])
        underflow_occured == checked_sub_is_none(self.registers[vy], self.registers[vx])
        r1 == [self.registers EXCEPT ![vx] = wrapped_sum]
    IN  [self EXCEPT !.registers = [r1 EXCEPT ![15] = IF underflow_occured THEN 1 ELSE 0]]

\* Variant of instruction_left_shift that stores the shifted-out bit as 0 or 1.
instruction_left_shift_flag_as_bit(self, vx) ==
    LET most_significant == Shr(self.registers[vx], 7)
        r1 == [self.registers EXCEPT ![15] = most_significant]
    IN  [self EXCEPT !.registers = [r1 EXCEPT ![vx] = Shl(@, 1, 8)]]

instruction_left_shift(self, vx) ==
    LET most_significant == BitAnd(self.registers[vx], 128)
        r1 == [self.registers EXCEPT ![15] = most_significant]
    IN  [self EXCEPT !.registers = [r1 EXCEPT ![vx] = Shl(@, 1, 8)]]

instruction_skip_if_register_vx_not_equals_vy(self, vx, vy) ==
    IF self.registers[vx] # self.registers[vy]
    THEN [self EXCEPT !.program_counter = @ + 2] ELSE self

instruction_set_index_register(self, nnn) == [self EXCEPT !.index_register = nnn]

instruction_jump_with_pc_offset(self, nnn) ==
    [self EXCEPT !.program_counter = self.registers[0] + nnn]

\* rnd is the byte drawn by gen_range(0..=255)
instruction_random(self, vx, nn, rnd) == [self EXCEPT !.registers[vx] = BitAnd(rnd, nn)]

\* the inner loop of instruction_draw: the bits of one sprite byte, from
\* shift down to 0, starting at column x of row y
RECURSIVE draw_bits(_, _, _, _, _, _)
draw_bits(screen, registers, sprite_byte, shift, x, y) ==
    LET needs_invert == BitAnd(Shr(sprite_byte, shift), 1) = 1
        inverted == Screen_invert(screen, x, y)
        screen1 == IF needs_invert THEN inverted.self ELSE screen
        registers1 == IF needs_invert /\ ~inverted.ret
                      THEN [registers EXCEPT ![15] = 1] ELSE registers
    IN  IF x + 1 = WIDTH \/ shift = 0
        THEN [screen |-> screen1, registers |-> registers1]
        ELSE draw_bits(screen1, registers1, sprite_byte, shift - 1, x + 1, y)

\* the outer loop of instruction_draw, from sprite row `row` on
RECURSIVE draw_rows(_, _, _, _, _, _)
draw_rows(self, vx, n, row, x, y) ==
    IF row >= n THEN [self |-> self, ret |-> Ok]
    ELSE IF ~InBounds(self.index_register + row) THEN [self |-> self, ret |-> Panic]
    ELSE LET sprite_byte == byte(self.memory, self.index_register + row)
             b == draw_bits(self.screen, self.registers, sprite_byte, 7, x, y)
             s1 == [self EXCEPT !.screen = b.screen, !.registers = b.registers]
         IN  IF y + 1 = HEIGHT THEN [self |-> s1, ret |-> Ok]
             ELSE draw_rows(s1, vx, n, row + 1, s1.registers[vx] % WIDTH, y + 1)

\* A faulty Draw, for testing what the frame properties detect: the frame
\* is sent as into a channel that holds one frame, and dropped when a frame
\* is waiting.
instruction_draw_dropping_when_full(self, vx, vy, n) ==
    LET s0 == [self EXCEPT !.registers[15] = 0]
        x == s0.registers[vx] % WIDTH
        y == s0.registers[vy] % HEIGHT
        d == draw_rows(s0, vx, n, 0, x, y)
    IN  IF d.ret.tag # "Ok" THEN [self |-> self, ret |-> d.ret]
        ELSE IF d.self.frame_peer = "None" THEN [self |-> d.self, ret |-> Ok]
        ELSE IF d.self.frame_peer = "Disconnected" THEN [self |-> d.self, ret |-> Panic]
        ELSE IF d.self.frame_handle # << >> THEN [self |-> d.self, ret |-> Ok]
        ELSE [self |-> [d.self EXCEPT !.frame_handle = Append(@, d.self.screen)],
              ret |-> Ok]

instruction_draw(self, vx, vy, n) ==
    LET s0 == [self EXCEPT !.registers[15] = 0]
        x == s0.registers[vx] % WIDTH
        y == s0.registers[vy] % HEIGHT
        d == draw_rows(s0, vx, n, 0, x, y)
    IN  IF d.ret.tag # "Ok" THEN [self |-> self, ret |-> d.ret]
        ELSE IF d.self.frame_peer = "None" THEN [self |-> d.self, ret |-> Ok]
        ELSE IF d.self.frame_peer = "Disconnected" THEN [self |-> d.self, ret |-> Panic]
        ELSE [self |-> [d.self EXCEPT !.frame_handle = Append(@, d.self.screen)],
              ret |-> Ok]

instruction_skip_if_key_pressed(self, vx) ==
    IF self.key_pressed # None /\ self.key_pressed = self.registers[vx]
    THEN [self EXCEPT !.program_counter = @ + 2] ELSE self

\* A faulty SkipIfKeyNotPressed, for testing what its properties detect:
\* the skip is made unless the pressed key equals VX.
instruction_skip_if_key_not_pressed_unless_equal(self, vx) ==
    IF self.key_pressed # None /\ self.key_pressed = self.registers[vx]
    THEN self ELSE [self EXCEPT !.program_counter = @ + 2]

instruction_skip_if_key_not_pressed(self, vx) ==
    IF self.key_pressed # None /\ self.key_pressed # self.registers[vx]
    THEN self ELSE [self EXCEPT !.program_counter = @ + 2]

instruction_set_vx_to_delay_timer(self, vx) ==
    [self EXCEPT !.registers[vx] = self.sound_timer]

\* A faulty AwaitKeyInput, for testing what its properties detect: without
\* a key the instruction is passed over instead of being repeated.
instruction_await_key_input_passing_on(self, vx) ==
    IF self.key_pressed = None
    THEN self
    ELSE [self EXCEPT !.registers[vx] = self.key_pressed]

instruction_await_key_input(self, vx) ==
    IF self.key_pressed = None
    THEN [self EXCEPT !.program_counter = @ - 2]
    ELSE [self EXCEPT !.registers[vx] = self.key_pressed]

instruction_set_delay_timer(self, vx) == [self EXCEPT !.delay_timer = self.registers[vx]]

instruction_set_sound_timer(self, vx) == [self EXCEPT !.sound_timer = self.registers[vx]]

\* index_register += VX on a u16: past 0xFFFF the build with overflow checks
\* panics and the build without them wraps
instruction_add_to_index(self, vx, overflow_checks) ==
    LET sum == self.index_register + self.registers[vx]
    IN  IF sum > 65535 /\ overflow_checks THEN [self |-> self, ret |-> Panic]
        ELSE [self |-> [self EXCEPT !.index_register = sum % 65536], ret |-> Ok]

instruction_set_index_to_font_character(self, vx) ==
    [self EXCEPT !.index_register = self.registers[vx]]

\* A faulty BCDToIndex, for testing what its properties detect: the digits
\* are stored ones first.
instruction_set_index_to_binary_coded_vx_reversed(self, vx) ==
    LET i == self.index_register
        v == self.registers[vx]
    IN  IF ~InBounds(i) \/ ~InBounds(i + 1) \/ ~InBounds(i + 2)
        THEN [self |-> self, ret |-> Panic]
        ELSE [self |-> [self EXCEPT !.memory =
                           set_byte(set_byte(set_byte(@, i, v % 10),
                                             i + 1, (v \div 10) % 10),
                                    i + 2, v \div 100)],
              ret |-> Ok]

instruction_set_index_to_binary_coded_vx(self, vx) ==
    LET i == self.index_register
        v == self.registers[vx]
    IN  IF ~InBounds(i) \/ ~InBounds(i + 1) \/ ~InBounds(i + 2)
        THEN [self |-> self, ret |-> Panic]
        ELSE [self |-> [self EXCEPT !.memory =
                           set_byte(set_byte(set_byte(@, i, v \div 100),
                                             i + 1, (v \div 10) % 10),
                                    i + 2, v % 10)],
              ret |-> Ok]

\* A faulty DumpRegisters, for testing what its properties detect: VX itself
\* is left out.
instruction_dump_registers_excluding_vx(self, vx) ==
    IF \E i \in 0 .. vx : ~InBounds(self.index_register + i)
    THEN [self |-> self, ret |-> Panic]
    ELSE [self |-> [self EXCEPT !.memory =
                       Bytes(@, 0, self.index_register)
                         \o [i \in 1 .. vx |-> self.registers[i - 1]]
                         \o Bytes(@, self.index_register + vx, MEMORY_SIZE)],
          ret |-> Ok]

instruction_dump_registers(self, vx) ==
    IF \E i \in 0 .. vx : ~InBounds(self.index_register + i)
    THEN [self |-> self, ret |-> Panic]
    ELSE [self |-> [self EXCEPT !.memory =
                       Bytes(@, 0, self.index_register)
                         \o [i \in 1 .. vx + 1 |-> self.registers[i - 1]]
                         \o Bytes(@, self.index_register + vx + 1, MEMORY_SIZE)],
          ret |-> Ok]

instruction_load_registers(self, vx) ==
    IF \E i \in 0 .. vx : ~InBounds(self.index_register + i)
    THEN [self |-> self, ret |-> Panic]
    ELSE [self |-> [self EXCEPT !.registers = [i \in 0 .. 15 |->
                       IF i <= vx THEN byte(self.memory, self.index_register + i)
                       ELSE self.registers[i]]],
          ret |-> Ok]

(***************************************************************************)
(* Chip8::execute: the dispatch on the decoded instruction.                *)
(***************************************************************************)
Done(self) == [self |-> self, ret |-> Ok]

execute(self, i, rnd, overflow_checks) ==
    CASE i.name = "Clear" -> Done(instruction_clear(self))
      [] i.name = "Return" -> instruction_return(self)
      [] i.name = "Jump" -> Done(instruction_jump(self, i.nnn))
      [] i.name = "Call" -> instruction_call(self, i.nnn)
      [] i.name = "SkipIfRegisterEquals" ->
            Done(instruction_skip_if_register_equals(self, i.vx, i.nn))
      [] i.name = "SkipIfRegisterNotEquals" ->
            Done(instruction_skip_if_register_not_equals(self, i.vx, i.nn))
      [] i.name = "SkipIfRegisterVxEqualsVy" ->
            Done(instruction_skip_if_register_vx_equals_vy(self, i.vx, i.vy))
      [] i.name = "SetImmediate" -> Done(instruction_set_immediate(self, i.vx, i.nn))
      [] i.name = "AddImmediate" -> Done(instruction_add_immediate(self, i.vx, i.nn))
      [] i.name = "Copy" -> Done(instruction_copy(self, i.vx, i.vy))
      [] i.name = "BitwiseOr" -> Done(instruction_bitwise_or(self, i.vx, i.vy))
      [] i.name = "BitwiseAnd" -> Done(instruction_bitwise_and(self, i.vx, i.vy))
      [] i.name = "BitwiseXor" -> Done(instruction_bitwise_xor(self, i.vx, i.vy))
      [] i.name = "Add" -> Done(instruction_add(self, i.vx, i.vy))
      [] i.name = "Subtract" -> Done(instruction_subtract(self, i.vx, i.vy))
      [] i.name = "RightShift" -> Done(instruction_right_shift(self, i.vx))
      [] i.name = "SetVxToVyMinusVx" ->
            Done(instruction_set_vx_to_vy_minus_vx(self, i.vx, i.vy))
      [] i.name = "LeftShift" -> Done(instruction_left_shift(self, i.vx))
      [] i.name = "SkipIfRegisterVxNotEqualsVy" ->
            Done(instruction_skip_if_register_vx_not_equals_vy(self, i.vx, i.vy))
      [] i.name = "SetIndexRegister" -> Done(instruction_set_index_register(self, i.nnn))
      [] i.name = "JumpWithPcOffset" -> Done(instruction_jump_with_pc_offset(self, i.nnn))
      [] i.name = "Random" -> Done(instruction_random(self, i.vx, i.nn, rnd))
      [] i.name = "Draw" -> instruction_draw(self, i.vx, i.vy, i.n)
      [] i.name = "SkipIfKeyPressed" -> Done(instruction_skip_if_key_pressed(self, i.vx))
      [] i.name = "SkipIfKeyNotPressed" ->
            Done(instruction_skip_if_key_not_pressed(self, i.vx))
      [] i.name = "SetVxToDelayTimer" ->
            Done(instruction_set_vx_to_delay_timer(self, i.vx))
      [] i.name = "AwaitKeyInput" -> Done(instruction_await_key_input(self, i.vx))
      [] i.name = "SetDelayTimer" -> Done(instruction_set_delay_timer(self, i.vx))
      [] i.name = "SetSoundTimer" -> Done(instruction_set_sound_timer(self, i.vx))
      [] i.name = "AddToIndex" -> instruction_add_to_index(self, i.vx, overflow_checks)
      [] i.name = "SetIndexToFontCharacter" ->
            Done(instruction_set_index_to_font_character(self, i.vx))
      [] i.name = "SetIndexToBinaryCodedVx" ->
            instruction_set_index_to_binary_coded_vx(self, i.vx)
      [] i.name = "DumpRegisters" -> instruction_dump_registers(self, i.vx)
      [] i.name = "LoadRegisters" -> instruction_load_registers(self, i.vx)
      [] i.name = "CallMachineCodeRoutine" ->
            [self |-> self, ret |-> Err("UnimplementedInstruction")]
      [] OTHER -> [self |-> self, ret |-> Panic]

(***************************************************************************)
(* Chip8::fetch and Chip8::cycle.                                          *)
(***************************************************************************)
\* A faulty fetch, for testing what the cycle properties detect: the word is
\* read but the program counter is not advanced.
fetch_without_advance(self) ==
    IF ~InBounds(self.program_counter) \/ ~InBounds(self.program_counter + 1)
    THEN [self |-> self, ret |-> Panic, word |-> 0]
    ELSE [self |-> self, ret |-> Ok, word |-> word(self.memory, self.program_counter)]

fetch(self) ==
    IF ~InBounds(self.program_counter) \/ ~InBounds(self.program_counter + 1)
    THEN [self |-> self, ret |-> Panic, word |-> 0]
    ELSE [self |-> [self EXCEPT !.program_counter = @ + 2],
          ret |-> Ok,
          word |-> word(self.memory, self.program_counter)]

\* The first half of cycle.  With no input handle nothing is read.  With
\* one, try_recv takes the oldest message waiting; when none is waiting it
\* answers Empty while the host holds the Sender (the key is kept) and
\* Disconnected once the host has dropped it (panic).
cycle_receive_input(self) ==
    IF self.input_peer = "None" THEN [self |-> self, ret |-> Ok]
    ELSE IF self.input_handle = << >>
    THEN IF self.input_peer = "Disconnected" THEN [self |-> self, ret |-> Panic]
         ELSE [self |-> self, ret |-> Ok]
    ELSE LET msg == Head(self.input_handle)
             s1 == [self EXCEPT !.input_handle = Tail(@)]
         IN  IF msg.tag = "Ok"
             THEN [self |-> [s1 EXCEPT !.key_pressed = msg.value], ret |-> Ok]
             ELSE IF msg.error = "ProgramRestartRequested"
             THEN LET r == initialize(s1)
                  IN  IF r.ret.tag # "Ok" THEN r
                      ELSE [self |-> [r.self EXCEPT !.key_pressed = None], ret |-> Ok]
             ELSE [self |-> s1, ret |-> Panic]

\* A faulty cycle, for testing what the lifecycle properties detect: the
\* test of the emulator state is missing.
cycle_without_guard(self, rnd, overflow_checks) ==
    LET rx == cycle_receive_input(self)
    IN  IF rx.ret.tag # "Ok" THEN rx
        ELSE LET f == fetch(rx.self)
             IN  IF f.ret.tag # "Ok" THEN [self |-> f.self, ret |-> f.ret]
                 ELSE LET d == Instruction_new(f.word)
                      IN  IF d.tag # "Ok" THEN [self |-> f.self, ret |-> d]
                          ELSE execute(f.self, d.instruction, rnd, overflow_checks)

cycle(self, rnd, overflow_checks) ==
    IF self.emulator_state # "ProgramLoaded"
    THEN [self |-> self, ret |-> Err("ProgramNotLoaded")]
    ELSE LET rx == cycle_receive_input(self)
         IN  IF rx.ret.tag # "Ok" THEN rx
             ELSE LET f == fetch(rx.self)
                  IN  IF f.ret.tag # "Ok" THEN [self |-> f.self, ret |-> f.ret]
                      ELSE LET d == Instruction_new(f.word)
                           IN  IF d.tag # "Ok" THEN [self |-> f.self, ret |-> d]
                               ELSE execute(f.self, d.instruction, rnd, overflow_checks)

(***************************************************************************)
(* What the next cycle() would fetch and decode, for the history variables *)
(* and the properties: the struct after the input was read, the decoder's  *)
(* answer for the word at its program counter, and the struct after fetch. *)
(***************************************************************************)
NoInstruction == [tag |-> "None"]

Fetched(self) ==
    IF self.emulator_state # "ProgramLoaded" THEN [decoded |-> NoInstruction, self |-> self]
    ELSE LET rx == cycle_receive_input(self)
         IN  IF rx.ret.tag # "Ok" THEN [decoded |-> NoInstruction, self |-> self]
             ELSE LET f == fetch(rx.self)
                  IN  IF f.ret.tag # "Ok" THEN [decoded |-> NoInstruction, self |-> self]
                      ELSE [decoded |-> Instruction_new(f.word), self |-> f.self]

NextName(self) ==
    LET d == Fetched(self).decoded
    IN  IF d.tag = "Ok" THEN d.instruction.name ELSE "none"

Restarts(self) ==
    /\ self.emulator_state = "ProgramLoaded"
    /\ self.input_peer # "None"
    /\ self.input_handle # << >>
    /\ Head(self.input_handle).tag = "Err"
    /\ Head(self.input_handle).error = "ProgramRestartRequested"

(***************************************************************************)
(* Inputs.                                                                 *)
(***************************************************************************)
\* 0x60 0x05  0xA0 0x00: V0 := 5; I := 0
ExampleProgram == << 96, 5, 160, 0 >>

EmptyProgram == << >>

\* 200: 6A07 VA := 7        202: A050 I := 0x050     204: D005 draw 5 rows
\* 206: 220A call 0x20A     208: 1208 jump 0x208     20A: F10A await key
\* 20C: 00EE return
BusyProgram == << 106, 7, 160, 80, 208, 5, 34, 10, 18, 8, 241, 10, 0, 238 >>

\* one byte more than fits between PROGRAM_OFFSET and the end of the memory
OversizeProgram == [i \in 1 .. MEMORY_SIZE - PROGRAM_OFFSET + 1 |-> 255]

Programs == { ExampleProgram, EmptyProgram, BusyProgram, OversizeProgram }

\* the keys the host reports
Keys == { 7 }

\* Result<Option<u8>, Chip8Error> values the host sends (keypad.rs)
InputMessages ==
    { [tag |-> "Ok", value |-> k] : k \in Keys \cup { None } }
        \cup { [tag |-> "Err", error |-> "ProgramRestartRequested"] }

RandomBytes == { 0, 165, 255 }

(***************************************************************************)
(* The timers (mod.rs, impl SoundTimer and impl DelayTimer).  The buzzer   *)
(* that SoundTimer::decrement starts is not part of the model.             *)
(***************************************************************************)
\* A faulty decrement, for testing what the properties of the timers
\* detect: the test against 0 is missing and the u8 wraps.
DelayTimer_decrement_wrapping(timer) == wrapping_sub(timer, 1)

SoundTimer_decrement(timer) == IF timer > 0 THEN timer - 1 ELSE timer

DelayTimer_decrement(timer) == IF timer > 0 THEN timer - 1 ELSE timer

\* the two decrements main makes together (main.rs, game thread)
tick_timers(self) ==
    [self EXCEPT !.delay_timer = DelayTimer_decrement(@),
                 !.sound_timer = SoundTimer_decrement(@)]

(***************************************************************************)
(* main.rs.  The game thread waits for a frame-finished signal, takes the  *)
(* mutex and runs CYCLES_PER_FRAME cycles; main opens the window and, in   *)
(* its render loop, takes the mutex to clone the frame, presents it and    *)
(* sends the signal.  The record main holds                                *)
(*  - the game thread's cycle_count and position (game: "recv", "lock",    *)
(*    "loop", and "panicked" once an unwrap() of the thread has failed;    *)
(*    batch: iterations of the for loop done);                             *)
(*  - the holder of the mutex ("free", "game", "poisoned");                *)
(*  - the position of main (render: "window", "clone", "send", then        *)
(*    "exited" once main has returned and "panicked" once an unwrap() of   *)
(*    main has failed; either way its Sender tx_frame_finished is gone);   *)
(*  - the signals waiting in the channel (rx_frame_finished), whether the  *)
(*    game thread's Receiver still exists (rx_alive), and the frames the   *)
(*    render loop has presented and signalled (rendered);                  *)
(*  - process: "running", and "ended" once the process has gone, which it  *)
(*    does some time after main has returned or panicked.  The game thread *)
(*    is never joined: it runs until the process ends.                     *)
(***************************************************************************)
FRAME_HZ == 30
CYCLES_PER_SECOND == 720
CYCLES_PER_FRAME == CYCLES_PER_SECOND \div FRAME_HZ

Main_start ==
    [cycle_count |-> 0, game |-> "recv", batch |-> 0, mutex |-> "free",
     render |-> "window", rx_frame_finished |-> 0, rendered |-> 0,
     rx_alive |-> TRUE, process |-> "running"]

\* A faulty cadence, for testing what the properties of the game thread
\* detect: the timers are ticked once per frame.
timers_due_every_frame(count) == (count % CYCLES_PER_FRAME) = 0

\* the test the game thread makes after each cycle() on its cycle_count
timers_due(count) == (count % 12) = 0

(***************************************************************************)
(* The state after Chip8::new.                                             *)
(***************************************************************************)
Init ==
    /\ chip8 = Chip8_new
    /\ op = "new"
    /\ result = Ok
    /\ prior_state = "InterpreterMemoryUninitialized"
    /\ initialized = FALSE
    /\ program_bytes = << >>
    /\ loads = 0
    /\ cycle_count = 0
    /\ since_load = 0
    /\ run_ok = TRUE
    /\ call_stack = << >>
    /\ raw = 0
    /\ decoded = NoInstruction
    /\ main = Main_start
    /\ ticks = 0
    /\ held_cycles = 0

Alive == result.tag # "Panic"

(***************************************************************************)
(* The host calls initialize().                                            *)
(***************************************************************************)
Initialize ==
    /\ Alive
    /\ LET r == initialize(chip8)
       IN  /\ Len(r.self.frame_handle) <= MaxFrames
           /\ chip8' = IF r.ret.tag = "Panic" THEN chip8 ELSE r.self
           /\ result' = r.ret
    /\ op' = "initialize"
    /\ prior_state' = chip8.emulator_state
    /\ initialized' = TRUE
    /\ program_bytes' = << >>
    /\ loads' = 0
    /\ cycle_count' = 0
    /\ since_load' = 0
    /\ run_ok' = TRUE
    /\ call_stack' = << >>
    /\ UNCHANGED << raw, decoded, main, ticks, held_cycles >>

(***************************************************************************)
(* The host calls load_program(bytes).                                     *)
(***************************************************************************)
LoadProgram(bytes) ==
    /\ Alive
    /\ loads < MaxLoads
    /\ LET r == load_program(chip8, bytes)
       IN  /\ chip8' = IF r.ret.tag = "Panic" THEN chip8 ELSE r.self
           /\ result' = r.ret
    /\ op' = "load_program"
    /\ prior_state' = chip8.emulator_state
    /\ program_bytes' = bytes
    /\ loads' = loads + 1
    /\ since_load' = 0
    /\ run_ok' = TRUE
    /\ UNCHANGED << initialized, cycle_count, call_stack, raw, decoded, main, ticks,
                    held_cycles >>

(***************************************************************************)
(* The host calls cycle().  rnd is the byte the random generator would     *)
(* give, overflow_checks the build's setting; they are drawn only when the *)
(* instruction about to run reads them.  frames bounds the frames waiting  *)
(* in the frame channel, which is unbounded in the program.  tick is TRUE  *)
(* when the caller is the game thread of main and the timers are due: it   *)
(* unwraps the result and then decrements both timers.                     *)
(***************************************************************************)
CycleStep(rnd, overflow_checks, frames, tick) ==
    \E r \in { cycle(chip8, rnd, overflow_checks) }, f \in { Fetched(chip8) } :
    LET guarded == chip8.emulator_state # "ProgramLoaded"
        base == IF Restarts(chip8) THEN << >> ELSE call_stack
        name == IF f.decoded.tag = "Ok" THEN f.decoded.instruction.name ELSE "none"
    IN  /\ Len(r.self.frame_handle) <= frames
        /\ chip8' = IF r.ret.tag = "Panic" THEN chip8
                    ELSE IF tick /\ r.ret.tag = "Ok" THEN tick_timers(r.self)
                    ELSE r.self
        /\ result' = r.ret
        /\ op' = "cycle"
        /\ prior_state' = chip8.emulator_state
        /\ cycle_count' = IF guarded THEN cycle_count
                          ELSE IF Restarts(chip8) THEN 1 ELSE cycle_count + 1
        /\ since_load' = IF guarded THEN since_load
                         ELSE IF Restarts(chip8) THEN 1 ELSE since_load + 1
        /\ run_ok' = IF guarded THEN run_ok ELSE (run_ok /\ r.ret.tag = "Ok")
        /\ loads' = IF Restarts(chip8) THEN 0 ELSE loads
        /\ program_bytes' = IF Restarts(chip8) THEN << >> ELSE program_bytes
        /\ call_stack' =
              IF r.ret.tag # "Ok" THEN base
              ELSE IF name = "Call"
                   THEN Append(base, [word |-> f.self.program_counter,
                                      stack_pointer |-> f.self.stack_pointer])
              ELSE IF name = "Return" /\ base # << >>
                   THEN SubSeq(base, 1, Len(base) - 1)
              ELSE base
        /\ UNCHANGED << initialized, raw, decoded >>

Cycle ==
    /\ Alive
    /\ cycle_count < MaxCycles
    /\ \E rnd \in (IF NextName(chip8) = "Random" THEN RandomBytes ELSE { 0 }),
          overflow_checks \in (IF NextName(chip8) = "AddToIndex" THEN BOOLEAN ELSE { TRUE }) :
            CycleStep(rnd, overflow_checks, MaxFrames, FALSE)
    /\ UNCHANGED << main, ticks, held_cycles >>

(***************************************************************************)
(* The host's input loop sends a message; the presentation loop receives   *)
(* a frame.                                                                *)
(***************************************************************************)
HostSendInput(msg) ==
    /\ Alive
    /\ chip8.input_peer = "Connected"
    /\ Len(chip8.input_handle) < MaxQueue
    /\ chip8' = [chip8 EXCEPT !.input_handle = Append(@, msg)]
    /\ op' = "host_send_input"
    /\ UNCHANGED << result, prior_state, initialized, program_bytes, loads,
                    cycle_count, since_load, run_ok, call_stack, raw, decoded, main,
                    ticks, held_cycles >>

HostReceiveFrame ==
    /\ Alive
    /\ chip8.frame_peer = "Connected"
    /\ chip8.frame_handle # << >>
    /\ chip8' = [chip8 EXCEPT !.frame_handle = Tail(@)]
    /\ op' = "host_receive_frame"
    /\ UNCHANGED << result, prior_state, initialized, program_bytes, loads,
                    cycle_count, since_load, run_ok, call_stack, raw, decoded, main,
                    ticks, held_cycles >>

Next ==
    \/ Initialize
    \/ \E bytes \in Programs : LoadProgram(bytes)
    \/ Cycle
    \/ \E msg \in InputMessages : HostSendInput(msg)
    \/ HostReceiveFrame

Spec == Init /\ [][Next]_vars

(***************************************************************************)
(* The decoder on its own: Instruction::new applied to any 16-bit word.    *)
(* It is an associated function without a self parameter, so the struct    *)
(* takes no part in the step.                                              *)
(***************************************************************************)
Words == 0 .. 65535

DecodeInit ==
    /\ chip8 = Chip8_new
    /\ op = "new"
    /\ result = Ok
    /\ prior_state = "InterpreterMemoryUninitialized"
    /\ initialized = FALSE
    /\ program_bytes = << >>
    /\ loads = 0
    /\ cycle_count = 0
    /\ since_load = 0
    /\ run_ok = TRUE
    /\ call_stack = << >>
    /\ raw \in Words
    /\ decoded = NoInstruction
    /\ main = Main_start
    /\ ticks = 0
    /\ held_cycles = 0

Decode ==
    /\ decoded' = Instruction_new(raw)
    /\ op' = "decode"
    /\ UNCHANGED << chip8, result, prior_state, initialized, program_bytes, loads,
                    cycle_count, since_load, run_ok, call_stack, raw, main, ticks,
                    held_cycles >>

DecodeNext == Decode

DecodeSpec == DecodeInit /\ [][DecodeNext]_vars

(***************************************************************************)
(* The stack on its own: programs made of Call and Return only, run from   *)
(* the state after new(), initialize() and load_program(program).  A       *)
(* program has StackSlots instructions; each is 00EE (Return) or 2NNN with *)
(* NNN the address of one of the program's instructions.                   *)
(***************************************************************************)
StackSlots == 3         \* instructions of a Call / Return program
MaxStackCycles == 6     \* cycle() calls made on a Call / Return program

\* choice[j] = 0: instruction j is Return; choice[j] = t > 0: it is Call to
\* the address of instruction t
CallReturnProgram(choice) ==
    [i \in 1 .. 2 * StackSlots |->
        LET c == choice[(i + 1) \div 2]
            target == PROGRAM_OFFSET + 2 * (c - 1)
        IN  IF c = 0 THEN (IF i % 2 = 1 THEN 0 ELSE 238)
            ELSE IF i % 2 = 1 THEN 32 + Shr(target, 8) ELSE BitAnd(target, 255)]

CallReturnPrograms ==
    { CallReturnProgram(choice) : choice \in [1 .. StackSlots -> 0 .. StackSlots] }

StackInit ==
    /\ \E bytes \in CallReturnPrograms :
          /\ chip8 = load_program(initialize(Chip8_new).self, bytes).self
          /\ program_bytes = bytes
    /\ op = "load_program"
    /\ result = Ok
    /\ prior_state = "InterpreterMemoryInitialized"
    /\ initialized = TRUE
    /\ loads = 1
    /\ cycle_count = 0
    /\ since_load = 0
    /\ run_ok = TRUE
    /\ call_stack = << >>
    /\ raw = 0
    /\ decoded = NoInstruction
    /\ main = Main_start
    /\ ticks = 0
    /\ held_cycles = 0

StackCycle ==
    /\ Alive
    /\ cycle_count < MaxStackCycles
    /\ CycleStep(0, TRUE, MaxFrames, FALSE)
    /\ UNCHANGED << main, ticks, held_cycles >>

StackNext == StackCycle

StackSpec == StackInit /\ [][StackNext]_vars

(***************************************************************************)
(* Properties.  Addresses and sizes are written as the statements give     *)
(* them: 0x050 = 80, 0x09F = 159, 0x200 = 512, 0x204 = 516, 0x1000 = 4096. *)
(***************************************************************************)
\* n zero bytes
Zeros(n) == SubSeq(Memory_default, 1, n)

\* C1: cycle() called in a lifecycle state other than ProgramLoaded returns
\* ProgramNotLoaded and changes nothing of the machine: program counter,
\* registers, memory, screen and lifecycle state (and every other field,
\* the waiting input included) are as before the call.
C1_CycleBeforeProgramLoaded ==
    [][ (op' = "cycle" /\ chip8.emulator_state # "ProgramLoaded")
            => /\ result' = Err("ProgramNotLoaded")
               /\ chip8' = chip8 ]_vars

\* cycle() was refused after initialize() with a message waiting in the
\* input channel
C1_Witness ==
    /\ op = "cycle"
    /\ result = Err("ProgramNotLoaded")
    /\ chip8.emulator_state = "InterpreterMemoryInitialized"
    /\ chip8.input_handle # << >>

\* C2, as stated: load_program() called in the state Uninitialized fails
\* with InterpreterMemoryIsUninitialized, the lifecycle state stays
\* Uninitialized and the memory is not written.
C2_LoadProgramBeforeInitialize ==
    [][ (op' = "load_program"
            /\ chip8.emulator_state = "InterpreterMemoryUninitialized")
            => /\ result' = Err("InterpreterMemoryIsUninitialized")
               /\ chip8'.emulator_state = "InterpreterMemoryUninitialized"
               /\ chip8'.memory = chip8.memory ]_vars

\* what the code does instead: the load before any initialize() returns Ok,
\* the state is ProgramLoaded and the image is in memory
C2_Witness ==
    /\ op = "load_program"
    /\ ~initialized
    /\ result = Ok
    /\ chip8.emulator_state = "ProgramLoaded"
    /\ program_bytes = ExampleProgram
    /\ Bytes(chip8.memory, 512, 516) = ExampleProgram

\* C3: initialize() succeeds from every lifecycle state, and afterwards the
\* state is Initialized, the 16 registers, I and both timers are 0, the
\* program counter is 0x200, no key is pressed, every pixel is off, no
\* return address is on the stack, the font table is at 0x050..0x09F and
\* every other memory byte is 0.
C3_InitializeResetsEverything ==
    op = "initialize"
        => /\ result = Ok
           /\ chip8.emulator_state = "InterpreterMemoryInitialized"
           /\ \A i \in 0 .. 15 : chip8.registers[i] = 0
           /\ chip8.index_register = 0
           /\ chip8.program_counter = 512
           /\ chip8.delay_timer = 0
           /\ chip8.sound_timer = 0
           /\ chip8.key_pressed = None
           /\ chip8.screen = Zeros(64 * 32)
           /\ call_stack = << >>
           /\ chip8.memory = Zeros(80) \o FONT_SET \o Zeros(4096 - 160)

\* initialize() has just returned on a machine that had a program loaded
C3_Witness ==
    /\ op = "initialize"
    /\ prior_state = "ProgramLoaded"
    /\ chip8.emulator_state = "InterpreterMemoryInitialized"
    /\ chip8.program_counter = 512

\* C4, as stated: initialize() called in the state MemoryInitialized or
\* ProgramLoaded returns InterpreterMemoryAlreadyInitialized and leaves the
\* lifecycle state as it was.
C4_InitializeTwiceIsAnError ==
    (op = "initialize"
        /\ prior_state \in { "InterpreterMemoryInitialized", "ProgramLoaded" })
        => /\ result = Err("InterpreterMemoryAlreadyInitialized")
           /\ chip8.emulator_state = prior_state

\* C4, amended: initialize() called in the state MemoryInitialized or
\* ProgramLoaded returns Ok, never InterpreterMemoryAlreadyInitialized, and
\* the lifecycle state afterwards is MemoryInitialized.
C4_InitializeTwiceSucceeds ==
    (op = "initialize"
        /\ prior_state \in { "InterpreterMemoryInitialized", "ProgramLoaded" })
        => /\ result = Ok
           /\ chip8.emulator_state = "InterpreterMemoryInitialized"

\* initialize() has returned Ok on a machine that was already initialized
C4_Witness ==
    /\ op = "initialize"
    /\ prior_state = "InterpreterMemoryInitialized"
    /\ result = Ok

\* C5, as stated: for a program image of any length L, after initialize()
\* and load_program(bytes) the image is at 0x200 .. 0x200 + L - 1, every
\* byte from 0x200 + L to 0xFFF is 0 and the state is ProgramLoaded, also
\* when an earlier, longer image had been loaded.
C5_LoadProgramAnyLength ==
    (op = "load_program" /\ initialized)
        => /\ result = Ok
           /\ chip8.emulator_state = "ProgramLoaded"
           /\ Bytes(chip8.memory, 512, 512 + Len(program_bytes)) = program_bytes
           /\ Bytes(chip8.memory, 512 + Len(program_bytes), 4096)
                 = Zeros(4096 - 512 - Len(program_bytes))

\* C5, amended: the same for every image that fits the memory above 0x200,
\* that is of length L <= 0xE00 = 3584 (a longer image makes load_program
\* panic on the first byte past 0xFFF).
C5_LoadProgramThatFits ==
    (op = "load_program" /\ initialized /\ Len(program_bytes) <= 3584)
        => /\ result = Ok
           /\ chip8.emulator_state = "ProgramLoaded"
           /\ Bytes(chip8.memory, 512, 512 + Len(program_bytes)) = program_bytes
           /\ Bytes(chip8.memory, 512 + Len(program_bytes), 4096)
                 = Zeros(4096 - 512 - Len(program_bytes))

\* the 4-byte image has been loaded over the 14-byte image, which had run
\* (VA = 7 is the effect of its first instruction)
C5_Witness ==
    /\ op = "load_program"
    /\ initialized
    /\ loads = 2
    /\ program_bytes = ExampleProgram
    /\ chip8.registers[10] = 7
    /\ result = Ok

\* the instruction held by bytes 2j - 1 and 2j of an image, decoded
InstructionOf(bytes, j) == Instruction_new(256 * bytes[2 * j - 1] + bytes[2 * j])

\* the first k instructions of the image exist, and none is a jump, call,
\* return, skip or AwaitKey
StraightLine(bytes, k) ==
    \A j \in 1 .. k :
        /\ 2 * j <= Len(bytes)
        /\ InstructionOf(bytes, j).tag = "Ok"
        /\ InstructionOf(bytes, j).instruction.name \notin
              { "Jump", "Call", "Return", "JumpWithPcOffset", "AwaitKeyInput",
                "SkipIfRegisterEquals", "SkipIfRegisterNotEquals",
                "SkipIfRegisterVxEqualsVy", "SkipIfRegisterVxNotEqualsVy",
                "SkipIfKeyPressed", "SkipIfKeyNotPressed" }

\* C6: each successful cycle() fetches one big-endian word at the program
\* counter, advances the counter by 2 and applies that instruction: k
\* successful cycles of a program loaded after initialize() whose first k
\* instructions are no jump, call, return, skip or AwaitKey leave the
\* counter at 0x200 + 2k, and two cycles of [0x60,0x05,0xA0,0x00] leave
\* V0 = 5, the other registers 0, I = 0 and the counter at 0x204.
C6_CycleFetchesOneWord ==
    (initialized /\ loads >= 1 /\ cycle_count = since_load /\ run_ok
        /\ StraightLine(program_bytes, since_load))
        => /\ chip8.program_counter = 512 + 2 * since_load
           /\ (program_bytes = ExampleProgram /\ since_load = 2)
                 => /\ chip8.registers = [i \in 0 .. 15 |-> IF i = 0 THEN 5 ELSE 0]
                    /\ chip8.index_register = 0
                    /\ chip8.program_counter = 516

\* two cycles of the example program have returned Ok
C6_Witness ==
    /\ op = "cycle"
    /\ result = Ok
    /\ initialized
    /\ program_bytes = ExampleProgram
    /\ cycle_count = 2
    /\ since_load = 2
    /\ run_ok

\* C7, as stated: the cycle() that finds a restart request in the input
\* channel returns no error and leaves the machine in the state
\* ProgramLoaded with the program image at 0x200.
C7_RestartReloadsProgram ==
    [][ (op' = "cycle" /\ Restarts(chip8))
            => /\ result' = Ok
               /\ chip8'.emulator_state = "ProgramLoaded"
               /\ Bytes(chip8'.memory, 512, 512 + Len(program_bytes))
                     = program_bytes ]_vars

\* what the code does instead: the cycle() that read the restart request
\* ran initialize() alone, fetched the word 0x0000 at 0x200 and returned
\* ProgramNotCompatible, and a later cycle() is refused
C7_Witness ==
    /\ op = "cycle"
    /\ prior_state = "InterpreterMemoryInitialized"
    /\ result = Err("ProgramNotLoaded")
    /\ loads = 0
    /\ cycle_count = 1
    /\ chip8.program_counter = 514
    /\ Bytes(chip8.memory, 512, 516) = Zeros(4)

\* the words for which the statement of C8 expects InvalidInstruction:
\* top nibble 8 with a low nibble outside 0..7 and E, top nibble E with a
\* low byte other than 9E and A1, top nibble F with a low byte other than
\* 07, 0A, 15, 18, 1E, 29, 33, 55 and 65
InvalidWord(w) ==
    \/ w \div 4096 = 8 /\ w % 16 \notin (0 .. 7) \cup { 14 }
    \/ w \div 4096 = 14 /\ w % 256 \notin { 158, 161 }
    \/ w \div 4096 = 15 /\ w % 256 \notin { 7, 10, 21, 24, 30, 41, 51, 85, 101 }

\* the operands a decoded instruction carries are the bit fields of w
OperandsOf(instruction, w) ==
    /\ "vx" \in DOMAIN instruction => instruction.vx = (w \div 256) % 16
    /\ "vy" \in DOMAIN instruction => instruction.vy = (w \div 16) % 16
    /\ "n" \in DOMAIN instruction => instruction.n = w % 16
    /\ "nn" \in DOMAIN instruction => instruction.nn = w % 256
    /\ "nnn" \in DOMAIN instruction => instruction.nnn = w % 4096

\* C8: the decoder answers every 16-bit word with exactly one of an
\* instruction, ProgramNotCompatible, or InvalidInstruction carrying the
\* word; decoding the word again gives the same answer; InvalidInstruction
\* is the answer exactly for the words of InvalidWord; and the operands of
\* a decoded instruction are vx = bits 11..8, vy = bits 7..4, n = bits
\* 3..0, nn = bits 7..0, nnn = bits 11..0.
C8_DecodeIsTotal ==
    op = "decode"
        => /\ \/ decoded.tag = "Ok"
              \/ decoded = Err("ProgramNotCompatible")
              \/ decoded = InvalidInstruction(raw)
           /\ decoded = Instruction_new(raw)
           /\ (decoded.tag = "Err" /\ decoded.error = "InvalidInstruction")
                 <=> InvalidWord(raw)
           /\ decoded.tag = "Ok" => OperandsOf(decoded.instruction, raw)

\* the word 0xD12F has been decoded to Draw with all three operands
C8_Witness ==
    /\ op = "decode"
    /\ raw = 53551
    /\ decoded = Decoded([name |-> "Draw", vx |-> 1, vy |-> 2, n |-> 15])

\* C9, as stated: of the words 0x0000..0x0FFF only 0x00E0 decodes to Clear
\* and only 0x00EE to Return; every other one decodes to
\* ProgramNotCompatible.
C9_OnlyTwoZeroWordsDecode ==
    (op = "decode" /\ raw \div 4096 = 0)
        => /\ decoded = Decoded([name |-> "Clear"]) <=> raw = 224
           /\ decoded = Decoded([name |-> "Return"]) <=> raw = 238
           /\ raw \notin { 224, 238 } => decoded = Err("ProgramNotCompatible")

\* what the code does instead: the word 0x01E0 has been decoded to Clear
C9_Witness ==
    /\ op = "decode"
    /\ raw = 480
    /\ decoded = Decoded([name |-> "Clear"])

\* C10: the stack is last in, first out.  call_stack holds, for every Call
\* not yet returned from, the word it pushed (the address of the
\* instruction after the Call) and the stack pointer before the push.  A
\* successful Return sets the program counter to the word of the latest
\* such Call and the stack pointer to its value before that Call; so N
\* Returns after N Calls give back the pushed words in reverse order and
\* end with the stack pointer where it was before the first Call.
C10_StackIsLifo ==
    [][ (op' = "cycle" /\ result' = Ok /\ NextName(chip8) = "Return"
            /\ call_stack # << >>)
            => /\ chip8'.program_counter = call_stack[Len(call_stack)].word
               /\ chip8'.stack_pointer = call_stack[Len(call_stack)].stack_pointer
               /\ call_stack' = SubSeq(call_stack, 1, Len(call_stack) - 1) ]_vars

\* two nested Calls and their two Returns have run: both words are in the
\* stack window, and the stack pointer and the program counter are back
\* after the first Call
C10_Witness ==
    /\ op = "cycle"
    /\ run_ok
    /\ since_load = 4
    /\ call_stack = << >>
    /\ chip8.stack_pointer = 511
    /\ chip8.program_counter = 514
    /\ word(chip8.memory, 509) = 514
    /\ word(chip8.memory, 507) = 516

(***************************************************************************)
(* Nested calls: programs in which every instruction is a Call, run from   *)
(* the state after new(), initialize() and load_program(program) until     *)
(* the stack gives way.                                                    *)
(***************************************************************************)
MaxNestedCycles == 260  \* cycle() calls made on a program of nested Calls

\* 0x200: Call 0x200
SelfCallProgram == << 34, 0 >>
\* 0x200: Call 0x202; 0x202: Call 0x200
MutualCallProgram == << 34, 2, 34, 0 >>

NestedCallPrograms == { SelfCallProgram, MutualCallProgram }

NestedInit ==
    /\ \E bytes \in NestedCallPrograms :
          /\ chip8 = load_program(initialize(Chip8_new).self, bytes).self
          /\ program_bytes = bytes
    /\ op = "load_program"
    /\ result = Ok
    /\ prior_state = "InterpreterMemoryInitialized"
    /\ initialized = TRUE
    /\ loads = 1
    /\ cycle_count = 0
    /\ since_load = 0
    /\ run_ok = TRUE
    /\ call_stack = << >>
    /\ raw = 0
    /\ decoded = NoInstruction
    /\ main = Main_start
    /\ ticks = 0
    /\ held_cycles = 0

NestedCycle ==
    /\ Alive
    /\ cycle_count < MaxNestedCycles
    /\ CycleStep(0, TRUE, MaxFrames, FALSE)
    /\ UNCHANGED << main, ticks, held_cycles >>

NestedNext == NestedCycle

NestedCallSpec == NestedInit /\ [][NestedNext]_vars

\* the words the stack window 0x000..0x1FE holds besides its bottom address
StackWindowWords == (STACK_WINDOW_BOTTOM - STACK_WINDOW_TOP) \div 2

\* C11, as stated: a Call executed when the stack window is full, that is
\* with StackWindowWords calls outstanding since initialize(), returns the
\* error StackOverflow, leaves the stack pointer and the memory unchanged and
\* does not set the program counter to its operand: the program counter
\* stays where the fetch left it.
C11_CallOnFullStackOverflows ==
    [][ (op' = "cycle" /\ NextName(chip8) = "Call"
            /\ Len(call_stack) = StackWindowWords)
            => /\ result' = Err("StackOverflow")
               /\ chip8'.stack_pointer = chip8.stack_pointer
               /\ chip8'.memory = chip8.memory
               /\ chip8'.program_counter = Fetched(chip8).self.program_counter ]_vars

\* C11, the case reached: 255 nested Calls have succeeded, the stack pointer
\* is 0x001, and the 256th Call has ended in a panic.
C11_Witness ==
    /\ op = "cycle"
    /\ result = Panic
    /\ Len(call_stack) = StackWindowWords
    /\ chip8.stack_pointer = 1

\* C12, as stated: a Return executed when no Call is outstanding (as many
\* pops as pushes since initialize()) returns the error StackUnderflow; no
\* word is read into the program counter, which stays where the fetch left
\* it, and the stack pointer is unchanged.
C12_ReturnOnEmptyStackUnderflows ==
    [][ (op' = "cycle" /\ NextName(chip8) = "Return" /\ call_stack = << >>)
            => /\ result' = Err("StackUnderflow")
               /\ chip8'.stack_pointer = chip8.stack_pointer
               /\ chip8'.program_counter = Fetched(chip8).self.program_counter ]_vars

\* C12, the case reached: the first instruction of the program is Return,
\* executed right after initialize() and load_program(); it has returned Ok,
\* moved the stack pointer from 0x1FF to 0x201 and set the program counter
\* to the word read at 0x1FF, which is 0.
C12_Witness ==
    /\ op = "cycle"
    /\ since_load = 1
    /\ cycle_count = 1
    /\ program_bytes[1] = 0 /\ program_bytes[2] = 238
    /\ call_stack = << >>
    /\ result = Ok
    /\ chip8.stack_pointer = 513
    /\ chip8.program_counter = 0

(***************************************************************************)
(* Register arithmetic: the programs  6Xaa  6Ybb  8XYk  (VX := aa;         *)
(* VY := bb; the arithmetic instruction k on VX and VY), for every pair of *)
(* register indices, run from the state after new(), initialize() and      *)
(* load_program(program).                                                  *)
(***************************************************************************)
ArithCycles == 3        \* cycle() calls made on an arithmetic program

RegisterIndices == 0 .. 15
ArithValues == { 0, 1, 2, 128, 255 }
\* last nibble of 8XYk: 4 is Add, 5 is Subtract
ArithOps == { 4, 5 }

ArithProgram(x, a, y, b, k) == << 96 + x, a, 96 + y, b, 128 + x, 16 * y + k >>

ArithPrograms ==
    { ArithProgram(x, a, y, b, k) :
        x \in RegisterIndices, a \in ArithValues,
        y \in RegisterIndices, b \in ArithValues, k \in ArithOps }

ArithInit ==
    /\ \E bytes \in ArithPrograms :
          /\ chip8 = load_program(initialize(Chip8_new).self, bytes).self
          /\ program_bytes = bytes
    /\ op = "load_program"
    /\ result = Ok
    /\ prior_state = "InterpreterMemoryInitialized"
    /\ initialized = TRUE
    /\ loads = 1
    /\ cycle_count = 0
    /\ since_load = 0
    /\ run_ok = TRUE
    /\ call_stack = << >>
    /\ raw = 0
    /\ decoded = NoInstruction
    /\ main = Main_start
    /\ ticks = 0
    /\ held_cycles = 0

ArithCycle ==
    /\ Alive
    /\ cycle_count < ArithCycles
    /\ CycleStep(0, TRUE, MaxFrames, FALSE)
    /\ UNCHANGED << main, ticks, held_cycles >>

ArithNext == ArithCycle

ArithSpec == ArithInit /\ [][ArithNext]_vars

\* the instruction the next cycle() executes
NextInstruction(self) == Fetched(self).decoded.instruction

\* the registers other than VX and VF keep their values
OthersKept(old, new, vx) ==
    \A j \in RegisterIndices : (j # vx /\ j # 15) => new[j] = old[j]

\* C13, as stated: Add X,Y, for all register indices X and Y in 0..15 and
\* all register values, leaves VX = (VX_old + VY_old) mod 256 and VF = 1 if
\* VX_old + VY_old > 255, else VF = 0.
C13_AddForEveryRegister ==
    [][ (op' = "cycle" /\ NextName(chip8) = "Add")
            => LET i == NextInstruction(chip8)
                   sum == chip8.registers[i.vx] + chip8.registers[i.vy]
               IN  /\ result' = Ok
                   /\ chip8'.registers[i.vx] = sum % 256
                   /\ chip8'.registers[15] = IF sum > 255 THEN 1 ELSE 0 ]_vars

\* C13, amended: Add X,Y, for all X and Y in 0..15 and all register values,
\* leaves VF = 1 if VX_old + VY_old > 255, else VF = 0, and for X other than
\* 0xF leaves VX = (VX_old + VY_old) mod 256.  With X = 0xF the flag,
\* written last, replaces the sum.  No other register changes.
C13_AddWritesFlagLast ==
    [][ (op' = "cycle" /\ NextName(chip8) = "Add")
            => LET i == NextInstruction(chip8)
                   sum == chip8.registers[i.vx] + chip8.registers[i.vy]
               IN  /\ result' = Ok
                   /\ i.vx # 15 => chip8'.registers[i.vx] = sum % 256
                   /\ chip8'.registers[15] = IF sum > 255 THEN 1 ELSE 0
                   /\ OthersKept(chip8.registers, chip8'.registers, i.vx) ]_vars

\* C13, the case reached: V3 := 0xFF, V4 := 0x01, Add 3,4 has left
\* V3 = 0x00 and VF = 1.
C13_Witness ==
    /\ op = "cycle"
    /\ since_load = 3
    /\ program_bytes = ArithProgram(3, 255, 4, 1, 4)
    /\ result = Ok
    /\ chip8.registers[3] = 0
    /\ chip8.registers[4] = 1
    /\ chip8.registers[15] = 1

\* C14, as stated: Subtract X,Y, for all register indices X and Y in 0..15
\* and all register values, leaves VX = (VX_old - VY_old) mod 256 and VF = 1
\* exactly when VX_old < VY_old.
C14_SubtractForEveryRegister ==
    [][ (op' = "cycle" /\ NextName(chip8) = "Subtract")
            => LET i == NextInstruction(chip8)
                   x_old == chip8.registers[i.vx]
                   y_old == chip8.registers[i.vy]
               IN  /\ result' = Ok
                   /\ chip8'.registers[i.vx] = (x_old - y_old + 256) % 256
                   /\ chip8'.registers[15] = IF x_old < y_old THEN 1 ELSE 0 ]_vars

\* C14, amended: Subtract X,Y, for all X and Y in 0..15 and all register
\* values, leaves VF = 1 exactly when VX_old < VY_old, else VF = 0, and for X
\* other than 0xF leaves VX = (VX_old - VY_old) mod 256.  With X = 0xF the
\* flag, written last, replaces the difference.  No other register changes.
C14_SubtractWritesFlagLast ==
    [][ (op' = "cycle" /\ NextName(chip8) = "Subtract")
            => LET i == NextInstruction(chip8)
                   x_old == chip8.registers[i.vx]
                   y_old == chip8.registers[i.vy]
               IN  /\ result' = Ok
                   /\ i.vx # 15 => chip8'.registers[i.vx] = (x_old - y_old + 256) % 256
                   /\ chip8'.registers[15] = IF x_old < y_old THEN 1 ELSE 0
                   /\ OthersKept(chip8.registers, chip8'.registers, i.vx) ]_vars

\* C14, the case reached: V3 := 0x01, V4 := 0x02, Subtract 3,4 has left
\* V3 = 0xFF and VF = 1.
C14_Witness ==
    /\ op = "cycle"
    /\ since_load = 3
    /\ program_bytes = ArithProgram(3, 1, 4, 2, 5)
    /\ result = Ok
    /\ chip8.registers[3] = 255
    /\ chip8.registers[4] = 2
    /\ chip8.registers[15] = 1

(***************************************************************************)
(* Drawing: the programs                                                   *)
(*     0x200  A050   I := 0x050, the glyph of 0                            *)
(*     0x202  D005   draw it at (V0, V0) = (0, 0): the background          *)
(*     0x204  A210   I := 0x210, the sprite                                *)
(*     0x206  6Xaa   VX := aa                                              *)
(*     0x208  6Ybb   VY := bb                                              *)
(*     0x20A  DXYN   draw the sprite                                       *)
(*     0x20C  DXYN   draw it again                                         *)
(*     0x20E  0000                                                         *)
(*     0x210  the sprite bytes, followed by zeros                          *)
(* run from the state after new(), initialize() and load_program(program), *)
(* with nobody receiving from the frame channel.                           *)
(***************************************************************************)
DrawCycles == 7         \* cycle() calls made on a drawing program
MaxDrawFrames == 4      \* frames waiting in the frame channel of a drawing program

DrawXRegisters == { 1, 15 }
DrawYRegisters == { 1, 2, 15 }
DrawXValues == { 0, 2, 60, 63, 66 }
DrawYValues == { 0, 8, 31, 33 }
DrawHeights == { 1, 2, 15 }
\* 0xFF 0x81; 0x7F 0xFF; 0x00 0xFF; 0x0F; 0x80
Sprites == { << 255, 129 >>, << 127, 255 >>, << 0, 255 >>, << 15 >>, << 128 >> }

DrawProgram(x, a, y, b, n, sprite) ==
    << 160, 80, 208, 5, 162, 16, 96 + x, a, 96 + y, b,
       208 + x, 16 * y + n, 208 + x, 16 * y + n, 0, 0 >> \o sprite

DrawPrograms ==
    { DrawProgram(x, a, y, b, n, sprite) :
        x \in DrawXRegisters, a \in DrawXValues, y \in DrawYRegisters,
        b \in DrawYValues, n \in DrawHeights, sprite \in Sprites }

DrawInit ==
    /\ \E bytes \in DrawPrograms :
          /\ chip8 = load_program(initialize(Chip8_new).self, bytes).self
          /\ program_bytes = bytes
    /\ op = "load_program"
    /\ result = Ok
    /\ prior_state = "InterpreterMemoryInitialized"
    /\ initialized = TRUE
    /\ loads = 1
    /\ cycle_count = 0
    /\ since_load = 0
    /\ run_ok = TRUE
    /\ call_stack = << >>
    /\ raw = 0
    /\ decoded = NoInstruction
    /\ main = Main_start
    /\ ticks = 0
    /\ held_cycles = 0

DrawCycle ==
    /\ Alive
    /\ cycle_count < DrawCycles
    /\ CycleStep(0, TRUE, MaxDrawFrames, FALSE)
    /\ UNCHANGED << main, ticks, held_cycles >>

DrawNext == DrawCycle

DrawSpec == DrawInit /\ [][DrawNext]_vars

\* the two draws of the sprite have both been executed
DrawnTwice == op = "cycle" /\ since_load = 7 /\ run_ok

\* the Draw instruction of a drawing program, and the sprite it draws
TheDraw == InstructionOf(program_bytes, 7).instruction
TheSprite == Bytes(chip8.memory, chip8.index_register, chip8.index_register + TheDraw.n)

SpriteNotZero == \E r \in 1 .. Len(TheSprite) : TheSprite[r] # 0

\* the screen before the first draw of the sprite: the frame published by
\* the draw of the background; and the screen between its two draws
ScreenBefore == chip8.frame_handle[2]
ScreenBetween == chip8.frame_handle[3]

\* C15, as stated: after the same sprite of N rows in 1..15, not all zero,
\* has been drawn twice in a row at the same coordinates, whatever VX and VY,
\* the screen is exactly as it was before the first draw and VF = 1.
C15_DrawTwiceRestoresAnySprite ==
    (DrawnTwice /\ SpriteNotZero)
        => /\ chip8.screen = ScreenBefore
           /\ chip8.registers[15] = 1

\* C15, the failing case reached: Draw F,1,2 of the sprite 0xFF 0x81 twice
\* at row 8, below the background glyph.  The first draw meets no lit pixel
\* and puts both rows at column 0; the second switches row 0 off, which
\* sets VF, re-reads its column from VF and puts row 1 at column 1: the
\* pixels (0, 9) and (7, 9) of the first draw stay on, (1, 9) and (8, 9)
\* are switched on, and the screen is not the one before the first draw.
C15_Witness ==
    /\ DrawnTwice
    /\ program_bytes = DrawProgram(15, 0, 1, 8, 2, << 255, 129 >>)
    /\ Bytes(ScreenBefore, 8 * WIDTH, 10 * WIDTH) = [i \in 1 .. 2 * WIDTH |-> 0]
    /\ Bytes(ScreenBetween, 9 * WIDTH, 9 * WIDTH + 9) = << 1, 0, 0, 0, 0, 0, 0, 1, 0 >>
    /\ Bytes(chip8.screen, 8 * WIDTH, 8 * WIDTH + 8) = << 0, 0, 0, 0, 0, 0, 0, 0 >>
    /\ Bytes(chip8.screen, 9 * WIDTH, 9 * WIDTH + 9) = << 1, 1, 0, 0, 0, 0, 0, 1, 1 >>
    /\ chip8.screen # ScreenBefore
    /\ chip8.registers[15] = 1

\* With X other than 0xF both draws put every row at the same column, and
\* the second draw undoes the first: the screen is as it was before the
\* first draw, whatever the sprite, the coordinates and the clipping.
DrawTwiceRestoresWhenVxIsNotFlag ==
    (DrawnTwice /\ TheDraw.vx # 15) => chip8.screen = ScreenBefore

\* VF after the second draw tells whether that draw switched a pixel off,
\* that is whether the first draw had switched one on: it is 0 when every
\* set bit of the sprite is clipped away, and when every set bit left on
\* the screen fell on a pixel that was lit before the first draw.
SecondDrawFlagsPixelsSwitchedOff ==
    (DrawnTwice /\ TheDraw.vx # 15)
        => (chip8.registers[15] = 1
              <=> \E i \in 1 .. WIDTH * HEIGHT :
                     ScreenBefore[i] = 0 /\ ScreenBetween[i] = 1)

\* The sprite 0x0F drawn twice at column 60: its set bits are at columns
\* 64..67 and clipped away, neither draw touches a pixel and VF = 0.
ClippedSpriteLeavesFlagClear ==
    /\ DrawnTwice
    /\ program_bytes = DrawProgram(1, 60, 2, 0, 1, << 15 >>)
    /\ ScreenBetween = ScreenBefore
    /\ chip8.screen = ScreenBefore
    /\ chip8.registers[15] = 0

\* The sprite 0x80 drawn twice at (0, 0), on a lit pixel of the background
\* glyph: the first draw switches the pixel off and sets VF, the second
\* switches it on again and leaves VF = 0.
SpriteOnLitPixelLeavesFlagClear ==
    /\ DrawnTwice
    /\ program_bytes = DrawProgram(1, 0, 2, 0, 1, << 128 >>)
    /\ pixel(ScreenBefore, 0) = 1
    /\ pixel(ScreenBetween, 0) = 0
    /\ chip8.screen = ScreenBefore
    /\ chip8.registers[15] = 0

(***************************************************************************)
(* Timers on their own: the programs                                       *)
(*     0x200  6Avv   VA := vv                                              *)
(*     0x202  FA15   delay timer := VA                                     *)
(*     0x204  6Aww   VA := ww                                              *)
(*     0x206  FA18   sound timer := VA                                     *)
(*     0x208  1208   jump to 0x208                                         *)
(* from the state in which the first four instructions have been executed; *)
(* from there on the host ticks the timers and the program idles.          *)
(***************************************************************************)
MaxTicks == 257         \* ticks made on a timer program
TimerCycles == 6        \* cycle() calls made on a timer program

TimerValues == { 0, 1, 5, 255 }

TimerProgram(v, w) == << 106, v, 250, 21, 106, w, 250, 24, 18, 8 >>

TimerPrograms == { TimerProgram(v, w) : v \in TimerValues, w \in TimerValues }

\* the struct after k successful cycle() calls
RECURSIVE after_cycles(_, _)
after_cycles(self, k) ==
    IF k = 0 THEN self ELSE after_cycles(cycle(self, 0, TRUE).self, k - 1)

TimerInit ==
    /\ \E bytes \in TimerPrograms :
          /\ chip8 = after_cycles(load_program(initialize(Chip8_new).self, bytes).self, 4)
          /\ program_bytes = bytes
    /\ op = "cycle"
    /\ result = Ok
    /\ prior_state = "ProgramLoaded"
    /\ initialized = TRUE
    /\ loads = 1
    /\ cycle_count = 4
    /\ since_load = 4
    /\ run_ok = TRUE
    /\ call_stack = << >>
    /\ raw = 0
    /\ decoded = NoInstruction
    /\ main = Main_start
    /\ ticks = 0
    /\ held_cycles = 0

TimerCycle ==
    /\ Alive
    /\ cycle_count < TimerCycles
    /\ CycleStep(0, TRUE, MaxFrames, FALSE)
    /\ UNCHANGED << main, ticks, held_cycles >>

Tick ==
    /\ Alive
    /\ ticks < MaxTicks
    /\ chip8' = tick_timers(chip8)
    /\ ticks' = ticks + 1
    /\ op' = "tick"
    /\ UNCHANGED << result, prior_state, initialized, program_bytes, loads, cycle_count,
                    since_load, run_ok, call_stack, raw, decoded, main, held_cycles >>

TimerNext == TimerCycle \/ Tick

TimerSpec == TimerInit /\ [][TimerNext]_vars

\* v - k, and 0 from the v-th tick on
TicksDown(v, k) == IF k <= v THEN v - k ELSE 0

\* C16: a timer set to v, with no SetDelayTimer or SetSoundTimer executed
\* since, has the value v - k after k ticks for every k <= v and the value 0
\* after v ticks and after every later tick; it never wraps around.  Here v
\* is the operand of the program's first SetImmediate for the delay timer
\* and of its second for the sound timer.
C16_TimersCountDownToZero ==
    /\ chip8.delay_timer = TicksDown(program_bytes[2], ticks)
    /\ chip8.sound_timer = TicksDown(program_bytes[6], ticks)

\* C16, the case reached: the delay timer was set to 5, the sound timer to
\* 255; six ticks have been made, and the delay timer is 0 after the sixth as
\* it was after the fifth.
C16_Witness ==
    /\ program_bytes = TimerProgram(5, 255)
    /\ op = "tick"
    /\ ticks = 6
    /\ chip8.delay_timer = 0
    /\ chip8.sound_timer = 249

(***************************************************************************)
(* main: the game thread and the render loop around a machine that runs a  *)
(* timer program.  The game thread's u64 cycle_count cannot wrap within    *)
(* the runs explored.  cycle() takes its key from the input channel; the   *)
(* keycode the signal carries has no counterpart in chip_8/mod.rs and is   *)
(* left out.                                                               *)
(***************************************************************************)
MaxRendered == 3        \* frames the render loop presents before the window closes

MainPrograms == { TimerProgram(5, 255), TimerProgram(1, 5) }

MainInit ==
    /\ \E bytes \in MainPrograms :
          /\ chip8 = load_program(initialize(Chip8_new).self, bytes).self
          /\ program_bytes = bytes
    /\ op = "load_program"
    /\ result = Ok
    /\ prior_state = "InterpreterMemoryInitialized"
    /\ initialized = TRUE
    /\ loads = 1
    /\ cycle_count = 0
    /\ since_load = 0
    /\ run_ok = TRUE
    /\ call_stack = << >>
    /\ raw = 0
    /\ decoded = NoInstruction
    /\ main = Main_start
    /\ ticks = 0
    /\ held_cycles = 0

\* the process has not ended: its threads take steps
Running == main.process = "running"

\* main has returned or panicked: tx_frame_finished, a local of main, has
\* been dropped
SenderDropped == main.render \in { "exited", "panicked" }

\* rx_frame_finished.recv().unwrap(): takes a signal if one is waiting;
\* with none waiting it blocks while the Sender exists, and once the Sender
\* has been dropped it returns an error and unwrap() panics, the thread
\* holding no guard
GameRecv ==
    /\ Running
    /\ main.game = "recv"
    /\ main.rx_frame_finished > 0 \/ SenderDropped
    /\ main' = IF main.rx_frame_finished > 0
               THEN [main EXCEPT !.rx_frame_finished = @ - 1, !.game = "lock"]
               ELSE [main EXCEPT !.game = "panicked"]
    /\ op' = "game_recv"
    /\ UNCHANGED << chip8, result, prior_state, initialized, program_bytes, loads,
                    cycle_count, since_load, run_ok, call_stack, raw, decoded, ticks,
                    held_cycles >>

\* chip_8_ref_1.lock(): blocks until the mutex is free; the guard lives to
\* the end of the loop body
GameLock ==
    /\ Running
    /\ main.game = "lock"
    /\ main.mutex = "free"
    /\ main' = [main EXCEPT !.mutex = "game", !.game = "loop", !.batch = 0]
    /\ held_cycles' = 0
    /\ op' = "game_lock"
    /\ UNCHANGED << chip8, result, prior_state, initialized, program_bytes, loads,
                    cycle_count, since_load, run_ok, call_stack, raw, decoded, ticks >>

\* one iteration of  for _ in 0..CYCLES_PER_FRAME : cycle().unwrap(), the
\* count, and the timers when they are due.  A failed unwrap() starts the
\* unwinding of the thread, which first drops the guard, a local of the
\* loop body: the mutex is released, poisoned.
GameCycle ==
    /\ Running
    /\ main.game = "loop"
    /\ main.batch < CYCLES_PER_FRAME
    /\ CycleStep(0, TRUE, MaxFrames, timers_due(main.cycle_count + 1))
    /\ main' = IF result'.tag = "Ok"
               THEN [main EXCEPT !.cycle_count = @ + 1, !.batch = @ + 1]
               ELSE [main EXCEPT !.game = "panicked", !.mutex = "poisoned"]
    /\ ticks' = IF result'.tag = "Ok" /\ timers_due(main.cycle_count + 1)
                THEN ticks + 1 ELSE ticks
    /\ held_cycles' = held_cycles + 1

\* A faulty end of the loop body, for testing what the properties of the two
\* threads detect: the guard outlives the loop body and the thread waits for
\* the next signal with the mutex held.
GameUnlock_keeping_guard ==
    /\ Running
    /\ main.game = "loop"
    /\ main.batch = CYCLES_PER_FRAME
    /\ main' = [main EXCEPT !.game = "recv"]
    /\ op' = "game_unlock"
    /\ UNCHANGED << chip8, result, prior_state, initialized, program_bytes, loads,
                    cycle_count, since_load, run_ok, call_stack, raw, decoded, ticks,
                    held_cycles >>

\* the end of the unwinding of the panicked thread: the closure is dropped
\* and with it the Receiver rx_frame_finished it owns and the signals
\* waiting in the channel
GameUnwind ==
    /\ Running
    /\ main.game = "panicked"
    /\ main.rx_alive
    /\ main' = [main EXCEPT !.rx_alive = FALSE, !.rx_frame_finished = 0]
    /\ op' = "game_unwind"
    /\ UNCHANGED << chip8, result, prior_state, initialized, program_bytes, loads,
                    cycle_count, since_load, run_ok, call_stack, raw, decoded, ticks,
                    held_cycles >>

\* the end of the loop body: the guard is dropped
GameUnlock ==
    /\ Running
    /\ main.game = "loop"
    /\ main.batch = CYCLES_PER_FRAME
    /\ main' = [main EXCEPT !.mutex = "free", !.game = "recv"]
    /\ op' = "game_unlock"
    /\ UNCHANGED << chip8, result, prior_state, initialized, program_bytes, loads,
                    cycle_count, since_load, run_ok, call_stack, raw, decoded, ticks,
                    held_cycles >>

\* Window::new(..).unwrap_or_else(panic): the window opens, or main panics
WindowNew ==
    /\ main.render = "window"
    /\ \E opened \in BOOLEAN :
          main' = [main EXCEPT !.render = IF opened THEN "clone" ELSE "panicked"]
    /\ op' = "window_new"
    /\ UNCHANGED << chip8, result, prior_state, initialized, program_bytes, loads,
                    cycle_count, since_load, run_ok, call_stack, raw, decoded, ticks,
                    held_cycles >>

\* the window is open: chip_8_ref_2.lock().unwrap().clone_frame().  lock()
\* blocks while the game thread holds the mutex; the guard is a temporary,
\* dropped at the end of the statement; on a poisoned mutex lock() returns
\* an error and unwrap() panics.
RenderClone ==
    /\ main.render = "clone"
    /\ main.rendered < MaxRendered
    /\ main.mutex # "game"
    /\ main' = [main EXCEPT !.render = IF main.mutex = "poisoned" THEN "panicked"
                                       ELSE "send"]
    /\ op' = "render_clone"
    /\ UNCHANGED << chip8, result, prior_state, initialized, program_bytes, loads,
                    cycle_count, since_load, run_ok, call_stack, raw, decoded, ticks,
                    held_cycles >>

\* update_with_buffer(..).unwrap() presents the frame, or fails and main
\* panics; then tx_frame_finished.send(..).unwrap() queues a signal as long
\* as the Receiver exists, and once it has been dropped send() fails,
\* nothing is queued and unwrap() panics
RenderSend ==
    /\ main.render = "send"
    /\ \E updated \in BOOLEAN :
          main' = IF updated /\ main.rx_alive
                  THEN [main EXCEPT !.render = "clone", !.rendered = @ + 1,
                                    !.rx_frame_finished = @ + 1]
                  ELSE [main EXCEPT !.render = "panicked"]
    /\ op' = "render_send"
    /\ UNCHANGED << chip8, result, prior_state, initialized, program_bytes, loads,
                    cycle_count, since_load, run_ok, call_stack, raw, decoded, ticks,
                    held_cycles >>

\* the loop condition fails (the window has been closed, or Escape is down,
\* which the user can bring about before any frame): main returns Ok(())
\* without joining the game thread
MainExit ==
    /\ main.render = "clone"
    /\ main' = [main EXCEPT !.render = "exited"]
    /\ op' = "main_exit"
    /\ UNCHANGED << chip8, result, prior_state, initialized, program_bytes, loads,
                    cycle_count, since_load, run_ok, call_stack, raw, decoded, ticks,
                    held_cycles >>

\* main has returned or panicked and the process ends, wherever the game
\* thread is: the steps that thread takes between the two are its last
ProcessEnd ==
    /\ Running
    /\ SenderDropped
    /\ main' = [main EXCEPT !.process = "ended"]
    /\ op' = "process_end"
    /\ UNCHANGED << chip8, result, prior_state, initialized, program_bytes, loads,
                    cycle_count, since_load, run_ok, call_stack, raw, decoded, ticks,
                    held_cycles >>

MainNext ==
    \/ WindowNew
    \/ GameRecv
    \/ GameLock
    \/ GameCycle
    \/ GameUnlock
    \/ GameUnwind
    \/ RenderClone
    \/ RenderSend
    \/ MainExit
    \/ ProcessEnd

MainSpec == MainInit /\ [][MainNext]_vars

\* C17: the game thread ticks both timers together exactly once after every
\* 12th executed cycle and at no other time: after n cycles the timers have
\* been ticked n div 12 times, whatever the position of the cycles in their
\* batches of 24, and both timers show the same number of ticks.  Here n is
\* the thread's cycle_count, which is also the number of cycle() calls made.
C17_TimersTickEveryTwelfthCycle ==
    /\ main.cycle_count = cycle_count
    /\ ticks = main.cycle_count \div 12
    /\ since_load >= 2 => chip8.delay_timer = TicksDown(program_bytes[2], ticks)
    /\ since_load >= 4 => chip8.sound_timer = TicksDown(program_bytes[6], ticks)

\* C17, the case reached: 36 cycles have been executed, the last of them in
\* the middle of the second batch; the timers, set to 5 and 255, have been
\* ticked three times.
C17_Witness ==
    /\ program_bytes = TimerProgram(5, 255)
    /\ op = "cycle"
    /\ main.cycle_count = 36
    /\ main.batch = 12
    /\ ticks = 3
    /\ chip8.delay_timer = 2
    /\ chip8.sound_timer = 252

\* C20, as stated: the game thread holds the lock on the machine for no more
\* than one cycle(): the lock is released between any two consecutive
\* cycle() calls, so it never makes a second cycle() under the same lock.
C20_LockHeldForOneCycle == held_cycles <= 1

\* C20, the case reached: the game thread still holds the lock it took
\* before the first cycle() of a batch after all 24 cycles of the batch,
\* and the render loop waits for it.
C20_Witness ==
    /\ main.mutex = "game"
    /\ main.game = "loop"
    /\ main.render = "clone"
    /\ held_cycles = CYCLES_PER_FRAME

(***************************************************************************)
(* Key input: the host sends keys faster than the machine cycles.  The     *)
(* programs idle (0x200: jump to 0x200) or wait for a key (0x200: AwaitKey *)
(* into V1; 0x202: jump to 0x200); they run from the state after new(),    *)
(* initialize() and load_program(program).                                 *)
(***************************************************************************)
MaxKeyQueue == 2        \* messages waiting in the input channel of a key program
KeyCycles == 3          \* cycle() calls made on a key program

KeyValues == { 3, 7 }
KeyMessages == { [tag |-> "Ok", value |-> k] : k \in KeyValues \cup { None } }

IdleProgram == << 18, 0 >>
AwaitKeyProgram == << 241, 10, 18, 0 >>
KeyPrograms == { IdleProgram, AwaitKeyProgram }

KeyInit ==
    /\ \E bytes \in KeyPrograms :
          /\ chip8 = load_program(initialize(Chip8_new).self, bytes).self
          /\ program_bytes = bytes
    /\ op = "load_program"
    /\ result = Ok
    /\ prior_state = "InterpreterMemoryInitialized"
    /\ initialized = TRUE
    /\ loads = 1
    /\ cycle_count = 0
    /\ since_load = 0
    /\ run_ok = TRUE
    /\ call_stack = << >>
    /\ raw = 0
    /\ decoded = NoInstruction
    /\ main = Main_start
    /\ ticks = 0
    /\ held_cycles = 0

KeyHostSend(msg) ==
    /\ Alive
    /\ chip8.input_peer = "Connected"
    /\ Len(chip8.input_handle) < MaxKeyQueue
    /\ chip8' = [chip8 EXCEPT !.input_handle = Append(@, msg)]
    /\ op' = "host_send_input"
    /\ UNCHANGED << result, prior_state, initialized, program_bytes, loads,
                    cycle_count, since_load, run_ok, call_stack, raw, decoded, main,
                    ticks, held_cycles >>

KeyCycle ==
    /\ Alive
    /\ cycle_count < KeyCycles
    /\ CycleStep(0, TRUE, MaxFrames, FALSE)
    /\ UNCHANGED << main, ticks, held_cycles >>

KeyNext ==
    \/ \E msg \in KeyMessages : KeyHostSend(msg)
    \/ KeyCycle

KeySpec == KeyInit /\ [][KeyNext]_vars

\* C18, as stated: the key input is a latest-value slot.  A cycle() that
\* finds values written by the host since the previous read leaves
\* key_pressed at the most recent of them, however many there are; a cycle()
\* that finds none leaves key_pressed as it was.
C18_KeyIsLatestValue ==
    [][ op' = "cycle"
            => chip8'.key_pressed =
                  IF chip8.input_handle = << >> THEN chip8.key_pressed
                  ELSE chip8.input_handle[Len(chip8.input_handle)].value ]_vars

\* C18, the case reached: the host sent key 3 and then key 7; the cycle()
\* that followed has left key_pressed at 3, with the 7 still waiting.
C18_Witness ==
    /\ op = "cycle"
    /\ result = Ok
    /\ chip8.key_pressed = 3
    /\ chip8.input_handle = << [tag |-> "Ok", value |-> 7] >>

\* C21, as stated: the stack pointer is 0x200 after initialize() and moves
\* by 2 on each successful push and pop, so in every reachable state it is
\* even, lies in 0x000..0x200 and equals 0x200 - 2 * (number of words on the
\* stack), the words being the pushes of Call not yet popped by a Return.
C21_StackPointerEvenFrom0x200 ==
    /\ chip8.stack_pointer % 2 = 0
    /\ chip8.stack_pointer \in 0 .. 512
    /\ chip8.stack_pointer = 512 - 2 * Len(call_stack)

\* C21, the case reached: the first instruction of the program, a Call, has
\* pushed one word; the stack pointer has gone from 0x1FF to 0x1FD, and the
\* word lies at 0x1FD..0x1FE.
C21_Witness ==
    /\ op = "cycle"
    /\ since_load = 1
    /\ result = Ok
    /\ Len(call_stack) = 1
    /\ call_stack[1].stack_pointer = 511
    /\ chip8.stack_pointer = 509
    /\ word(chip8.memory, 509) = 514

(***************************************************************************)
(* The state after new(), initialize() and load_program(bytes), for some   *)
(* image of the set given: the start of the instruction specifications     *)
(* below.                                                                  *)
(***************************************************************************)
LoadedInit(programs) ==
    /\ \E bytes \in programs :
          /\ chip8 = load_program(initialize(Chip8_new).self, bytes).self
          /\ program_bytes = bytes
    /\ op = "load_program"
    /\ result = Ok
    /\ prior_state = "InterpreterMemoryInitialized"
    /\ initialized = TRUE
    /\ loads = 1
    /\ cycle_count = 0
    /\ since_load = 0
    /\ run_ok = TRUE
    /\ call_stack = << >>
    /\ raw = 0
    /\ decoded = NoInstruction
    /\ main = Main_start
    /\ ticks = 0
    /\ held_cycles = 0

(***************************************************************************)
(* Publishing frames: drawing programs run while the host receives from    *)
(* the frame channel at any pace, or not at all.                           *)
(***************************************************************************)
PublishPrograms ==
    { DrawProgram(x, a, y, 0, 2, sprite) :
        x \in DrawXRegisters, a \in { 0, 60 }, y \in { 1, 2 },
        sprite \in { << 255, 129 >>, << 15 >> } }

PublishSpec == LoadedInit(PublishPrograms) /\ [][DrawCycle \/ HostReceiveFrame]_vars

\* C19: every executed Draw publishes exactly one snapshot, equal to the
\* screen after that draw, and publishing never blocks or aborts cycle(),
\* however slowly the consumer drains the channel: whatever number of
\* frames is waiting when the Draw is executed, cycle() returns Ok and the
\* frames waiting afterwards are those that waited before, followed by the
\* screen the draw has left.  The channel has no capacity, so it is never
\* full and no frame is dropped.
C19_DrawPublishesOneFrameWithoutBlocking ==
    [][ (op' = "cycle" /\ NextName(chip8) = "Draw")
            => /\ result' = Ok
               /\ chip8'.frame_handle = Append(chip8.frame_handle, chip8'.screen) ]_vars

\* C19, the case reached: nobody has received a frame, the program has made
\* its three draws, the last of them with three frames waiting, and all
\* four frames published wait in the channel, the newest equal to the
\* screen.
C19_Witness ==
    /\ DrawnTwice
    /\ result = Ok
    /\ Len(chip8.frame_handle) = 4
    /\ chip8.frame_handle[1] = Screen_default
    /\ chip8.frame_handle[3] # chip8.frame_handle[2]
    /\ chip8.frame_handle[4] = chip8.screen

\* A consumer that is one frame behind: the host has received every frame
\* but that of the first draw of the sprite when the second draw is made;
\* two frames wait afterwards.
DrawWithConsumerBehind ==
    /\ DrawnTwice
    /\ result = Ok
    /\ Len(chip8.frame_handle) = 2
    /\ chip8.frame_handle[1] # chip8.screen
    /\ chip8.frame_handle[2] = chip8.screen

(***************************************************************************)
(* Reading the timers: the programs                                        *)
(*     0x200  6Avv   VA := vv                                              *)
(*     0x202  FA15   delay timer := VA                                     *)
(*     0x204  6Aww   VA := ww                                              *)
(*     0x206  FA18   sound timer := VA                                     *)
(*     0x208  FX07   VX := delay timer                                     *)
(***************************************************************************)
TimerReadCycles == 5    \* cycle() calls made on a timer reading program

TimerReadProgram(v, w, x) == << 106, v, 250, 21, 106, w, 250, 24, 240 + x, 7 >>

TimerReadPrograms ==
    { TimerReadProgram(v, w, x) :
        v \in TimerValues, w \in TimerValues, x \in RegisterIndices }

TimerReadCycle ==
    /\ Alive
    /\ cycle_count < TimerReadCycles
    /\ CycleStep(0, TRUE, MaxFrames, FALSE)
    /\ UNCHANGED << main, ticks, held_cycles >>

TimerReadSpec == LoadedInit(TimerReadPrograms) /\ [][TimerReadCycle]_vars

\* C22, as stated: SetVxToDelayTimer X sets VX to the current value of the
\* delay timer, for every X and every pair of timer values, also when the
\* two timers differ, and changes neither timer.
C22_SetVxToDelayReadsDelayTimer ==
    [][ (op' = "cycle" /\ NextName(chip8) = "SetVxToDelayTimer")
            => /\ result' = Ok
               /\ chip8'.registers[NextInstruction(chip8).vx] = chip8.delay_timer
               /\ chip8'.delay_timer = chip8.delay_timer
               /\ chip8'.sound_timer = chip8.sound_timer ]_vars

\* C22, the case reached: the delay timer is 5 and the sound timer 255, and
\* SetVxToDelayTimer 3 has left V3 = 255.
C22_Witness ==
    /\ op = "cycle"
    /\ since_load = 5
    /\ program_bytes = TimerReadProgram(5, 255, 3)
    /\ result = Ok
    /\ chip8.delay_timer = 5
    /\ chip8.sound_timer = 255
    /\ chip8.registers[3] = 255

(***************************************************************************)
(* The key instructions, with the host sending keys as in KeySpec.  The    *)
(* programs are                                                            *)
(*     0x200  F10A   AwaitKey into V1                                      *)
(*     0x202  F20A   AwaitKey into V2                                      *)
(*     0x204  1204   jump to 0x204                                         *)
(* and, for SkipIfKeyPressed (EX9E) and SkipIfKeyNotPressed (EXA1),        *)
(*     0x200  6Xvv   VX := vv                                              *)
(*     0x202  EXkk   the skip instruction                                  *)
(*     0x204  1204   jump to 0x204                                         *)
(*     0x206  1206   jump to 0x206                                         *)
(***************************************************************************)
AwaitTwiceProgram == << 241, 10, 242, 10, 18, 4 >>

SkipKeyRegisters == { 1, 15 }
SkipKeyOperands == { 3, 9 }
\* low byte of EX9E and of EXA1
SkipKeyOps == { 158, 161 }

SkipKeyProgram(x, v, k) == << 96 + x, v, 224 + x, k, 18, 4, 18, 6 >>

KeyInstructionPrograms ==
    { AwaitTwiceProgram }
        \cup { SkipKeyProgram(x, v, k) :
                 x \in SkipKeyRegisters, v \in SkipKeyOperands, k \in SkipKeyOps }

KeyInstructionSpec == LoadedInit(KeyInstructionPrograms) /\ [][KeyNext]_vars

\* the key the next cycle() works with, after its read of the input channel,
\* and the program counter after its fetch
KeyRead(self) == Fetched(self).self.key_pressed
PcFetched(self) == Fetched(self).self.program_counter

\* C23, as stated: AwaitKey X executed while a key k is pressed sets VX = k
\* and clears the pressed-key slot to none, so that a second AwaitKey finds
\* no key unless the host has written one since.
C23_AwaitKeyConsumesKey ==
    [][ (op' = "cycle" /\ NextName(chip8) = "AwaitKeyInput" /\ KeyRead(chip8) # None)
            => /\ result' = Ok
               /\ chip8'.registers[NextInstruction(chip8).vx] = KeyRead(chip8)
               /\ chip8'.key_pressed = None ]_vars

\* C23, the case reached: both AwaitKey instructions have completed with
\* key 7, the pressed-key slot still holds 7 and no message waits.
C23_Witness ==
    /\ program_bytes = AwaitTwiceProgram
    /\ op = "cycle"
    /\ since_load = 2
    /\ chip8.registers[1] = 7
    /\ chip8.registers[2] = 7
    /\ chip8.key_pressed = 7
    /\ chip8.input_handle = << >>
    /\ chip8.program_counter = 516

\* C24: AwaitKey X executed while no key is pressed is a busy-wait: cycle()
\* returns Ok, the program counter is back at the address of the AwaitKey
\* (two below where the fetch left it), and registers, I, memory, stack
\* pointer, screen, timers and frames are as before (of the whole struct
\* only the input channel, read by the cycle, and the key slot, which holds
\* none, may differ), so the instruction is fetched again by the next
\* cycle(); executed with a key k pressed it completes with VX = k and the
\* program counter past the instruction.
C24_AwaitKeyBusyWaits ==
    [][ (op' = "cycle" /\ NextName(chip8) = "AwaitKeyInput")
            => /\ result' = Ok
               /\ IF KeyRead(chip8) = None
                  THEN /\ chip8'.program_counter = chip8.program_counter
                       /\ chip8' = [chip8 EXCEPT !.input_handle = chip8'.input_handle,
                                                  !.key_pressed = None]
                       /\ NextName(chip8') = "AwaitKeyInput"
                  ELSE /\ chip8'.program_counter = chip8.program_counter + 2
                       /\ chip8'.registers =
                             [chip8.registers EXCEPT
                                 ![NextInstruction(chip8).vx] = KeyRead(chip8)] ]_vars

\* C24, the case reached: the first cycle() found no key and waited, the
\* host then sent key 7, and the second cycle() has completed the AwaitKey
\* at 0x200 with V1 = 7.
C24_Witness ==
    /\ program_bytes = AwaitKeyProgram
    /\ op = "cycle"
    /\ since_load = 2
    /\ result = Ok
    /\ chip8.program_counter = 514
    /\ chip8.registers[1] = 7

\* C25, as stated: SkipIfKeyPressed X adds 2 to the program counter only if a
\* key is pressed and equals VX, and then also clears the pressed-key slot;
\* otherwise the program counter and the slot are unchanged.
C25_SkipKeyPressedConsumesKey ==
    [][ (op' = "cycle" /\ NextName(chip8) = "SkipIfKeyPressed")
            => LET k == KeyRead(chip8)
                   skip == k # None /\ k = chip8.registers[NextInstruction(chip8).vx]
               IN  /\ result' = Ok
                   /\ chip8'.program_counter = PcFetched(chip8) + (IF skip THEN 2 ELSE 0)
                   /\ chip8'.key_pressed = IF skip THEN None ELSE k ]_vars

\* C25, the case reached: V1 = 3, key 3 pressed, SkipIfKeyPressed 1 has
\* skipped to 0x206 and the slot still holds 3.
C25_Witness ==
    /\ program_bytes = SkipKeyProgram(1, 3, 158)
    /\ op = "cycle"
    /\ since_load = 2
    /\ result = Ok
    /\ chip8.program_counter = 518
    /\ chip8.key_pressed = 3

\* C26: SkipIfKeyNotPressed X adds 2 to the program counter when no key is
\* pressed and when the pressed key equals VX; it leaves the program counter
\* where the fetch put it only when a key is pressed and differs from VX; it
\* never changes the pressed-key slot.
C26_SkipKeyNotPressed ==
    [][ (op' = "cycle" /\ NextName(chip8) = "SkipIfKeyNotPressed")
            => LET k == KeyRead(chip8)
                   stay == k # None /\ k # chip8.registers[NextInstruction(chip8).vx]
               IN  /\ result' = Ok
                   /\ chip8'.program_counter = PcFetched(chip8) + (IF stay THEN 0 ELSE 2)
                   /\ chip8'.key_pressed = k ]_vars

\* C26, the case reached: V1 = 3, key 3 pressed, SkipIfKeyNotPressed 1 has
\* skipped to 0x206 and the slot holds 3.
C26_Witness ==
    /\ program_bytes = SkipKeyProgram(1, 3, 161)
    /\ op = "cycle"
    /\ since_load = 2
    /\ result = Ok
    /\ chip8.program_counter = 518
    /\ chip8.key_pressed = 3

(***************************************************************************)
(* The flag register as an operand: the programs                           *)
(*     0x200  6Xaa   VX := aa                                              *)
(*     0x202  7Xnn   AddImmediate X, nn                                    *)
(* and                                                                     *)
(*     0x200  6Xaa   VX := aa                                              *)
(*     0x202  6Ybb   VY := bb                                              *)
(*     0x204  8XYk   SetVxToVyMinusVx X, Y (k = 7) or LeftShift X (k = E)  *)
(* for every register index, run from the state after new(), initialize()  *)
(* and load_program(program).                                              *)
(***************************************************************************)
\* last nibble of 8XYk: 7 is SetVxToVyMinusVx, 0xE is LeftShift
FlagOps == { 7, 14 }

AddImmediateProgram(x, a, nn) == << 96 + x, a, 112 + x, nn >>

FlagPrograms ==
    { AddImmediateProgram(x, a, nn) :
        x \in RegisterIndices, a \in ArithValues, nn \in ArithValues }
    \cup
    { ArithProgram(x, a, y, b, k) :
        x \in RegisterIndices, a \in ArithValues,
        y \in RegisterIndices, b \in ArithValues, k \in FlagOps }

FlagSpec == LoadedInit(FlagPrograms) /\ [][ArithCycle]_vars

\* C27, as stated: AddImmediate X,NN, for every X in 0..15 (X = 0xF
\* included), every NN and every VX, leaves VX = (VX_old + NN) mod 256 and
\* VF = 1 if VX_old + NN > 255, else VF = 0.
C27_AddImmediateForEveryRegister ==
    [][ (op' = "cycle" /\ NextName(chip8) = "AddImmediate")
            => LET i == NextInstruction(chip8)
                   sum == chip8.registers[i.vx] + i.nn
               IN  /\ result' = Ok
                   /\ chip8'.registers[i.vx] = sum % 256
                   /\ chip8'.registers[15] = IF sum > 255 THEN 1 ELSE 0 ]_vars

\* C27, amended: AddImmediate X,NN, for every X in 0..15, every NN and every
\* VX, leaves VF = 1 if VX_old + NN > 255, else VF = 0, and for X other than
\* 0xF leaves VX = (VX_old + NN) mod 256.  With X = 0xF the flag, written
\* last, replaces the sum.  No other register changes.
C27_AddImmediateWritesFlagLast ==
    [][ (op' = "cycle" /\ NextName(chip8) = "AddImmediate")
            => LET i == NextInstruction(chip8)
                   sum == chip8.registers[i.vx] + i.nn
               IN  /\ result' = Ok
                   /\ i.vx # 15 => chip8'.registers[i.vx] = sum % 256
                   /\ chip8'.registers[15] = IF sum > 255 THEN 1 ELSE 0
                   /\ OthersKept(chip8.registers, chip8'.registers, i.vx) ]_vars

\* C27, the case reached: V3 := 0xFF, AddImmediate 3,0x02 has left V3 = 0x01
\* and VF = 1.
C27_Witness ==
    /\ op = "cycle"
    /\ since_load = 2
    /\ program_bytes = AddImmediateProgram(3, 255, 2)
    /\ result = Ok
    /\ chip8.registers[3] = 1
    /\ chip8.registers[15] = 1

\* C28, as stated: SetVxToVyMinusVx X,Y leaves VX = (VY_old - VX_old) mod
\* 256, leaves VY unchanged when Y is neither X nor 0xF, and leaves VF = 1
\* exactly when VY_old < VX_old, else VF = 0.
C28_VyMinusVxForEveryRegister ==
    [][ (op' = "cycle" /\ NextName(chip8) = "SetVxToVyMinusVx")
            => LET i == NextInstruction(chip8)
                   x_old == chip8.registers[i.vx]
                   y_old == chip8.registers[i.vy]
               IN  /\ result' = Ok
                   /\ chip8'.registers[i.vx] = (y_old - x_old + 256) % 256
                   /\ (i.vy # i.vx /\ i.vy # 15) => chip8'.registers[i.vy] = y_old
                   /\ chip8'.registers[15] = IF y_old < x_old THEN 1 ELSE 0 ]_vars

\* C28, amended: SetVxToVyMinusVx X,Y, for all X and Y in 0..15 and all
\* register values, leaves VF = 1 exactly when VY_old < VX_old, else VF = 0,
\* and for X other than 0xF leaves VX = (VY_old - VX_old) mod 256.  With
\* X = 0xF the flag, written last, replaces the difference.  No other
\* register changes, so VY is kept when Y is neither X nor 0xF.
C28_VyMinusVxWritesFlagLast ==
    [][ (op' = "cycle" /\ NextName(chip8) = "SetVxToVyMinusVx")
            => LET i == NextInstruction(chip8)
                   x_old == chip8.registers[i.vx]
                   y_old == chip8.registers[i.vy]
               IN  /\ result' = Ok
                   /\ i.vx # 15 => chip8'.registers[i.vx] = (y_old - x_old + 256) % 256
                   /\ chip8'.registers[15] = IF y_old < x_old THEN 1 ELSE 0
                   /\ OthersKept(chip8.registers, chip8'.registers, i.vx) ]_vars

\* C28, the case reached: V3 := 0x02, V4 := 0x01, SetVxToVyMinusVx 3,4 has
\* left V3 = 0xFF, V4 = 0x01 and VF = 1.
C28_Witness ==
    /\ op = "cycle"
    /\ since_load = 3
    /\ program_bytes = ArithProgram(3, 2, 4, 1, 7)
    /\ result = Ok
    /\ chip8.registers[3] = 255
    /\ chip8.registers[4] = 1
    /\ chip8.registers[15] = 1

\* C29, as stated: LeftShift X, for every X in 0..15 and every VX, leaves
\* VF = VX_old & 0x80 (the raw value 0x80 or 0x00) and VX = (VX_old * 2) mod
\* 256; VY is neither read nor written.
C29_LeftShiftForEveryRegister ==
    [][ (op' = "cycle" /\ NextName(chip8) = "LeftShift")
            => LET i == NextInstruction(chip8)
                   x_old == chip8.registers[i.vx]
               IN  /\ result' = Ok
                   /\ chip8'.registers[15] = BitAnd(x_old, 128)
                   /\ chip8'.registers[i.vx] = (x_old * 2) % 256
                   /\ OthersKept(chip8.registers, chip8'.registers, i.vx) ]_vars

\* C29, amended: LeftShift X, for X other than 0xF and every VX, leaves
\* VF = VX_old & 0x80 (the raw value 0x80 or 0x00) and VX = (VX_old * 2) mod
\* 256.  With X = 0xF the flag is written first and then shifted itself, so
\* VF = 0 whatever it held.  No other register changes and the outcome
\* depends on VX_old only, so VY is neither read nor written.
C29_LeftShiftWritesFlagFirst ==
    [][ (op' = "cycle" /\ NextName(chip8) = "LeftShift")
            => LET i == NextInstruction(chip8)
                   x_old == chip8.registers[i.vx]
               IN  /\ result' = Ok
                   /\ i.vx # 15 => /\ chip8'.registers[15] = BitAnd(x_old, 128)
                                   /\ chip8'.registers[i.vx] = (x_old * 2) % 256
                   /\ i.vx = 15 => chip8'.registers[15] = 0
                   /\ OthersKept(chip8.registers, chip8'.registers, i.vx) ]_vars

\* C29, the case reached: V3 := 0xFF, V4 := 0x01, LeftShift 3 has left
\* V3 = 0xFE, V4 = 0x01 and VF = 0x80.
C29_Witness ==
    /\ op = "cycle"
    /\ since_load = 3
    /\ program_bytes = ArithProgram(3, 255, 4, 1, 14)
    /\ result = Ok
    /\ chip8.registers[3] = 254
    /\ chip8.registers[4] = 1
    /\ chip8.registers[15] = 128

\* the coordinates a Draw of the instruction i starts at in the state self:
\* the registers modulo the screen size, VF being read after it has been
\* cleared
StartX(self, i) == IF i.vx = 15 THEN 0 ELSE self.registers[i.vx] % WIDTH
StartY(self, i) == IF i.vy = 15 THEN 0 ELSE self.registers[i.vy] % HEIGHT

\* the pixel (x, y) lies in the clipped rectangle of the sprite of n rows
\* placed at (x0, y0)
InClippedRectangle(x, y, x0, y0, n) ==
    /\ x0 <= x /\ x < x0 + 8 /\ x < WIDTH
    /\ y0 <= y /\ y < y0 + n /\ y < HEIGHT

\* the pixels in which two screens differ
PixelsChanged(old, new) ==
    { p \in (0 .. WIDTH - 1) \X (0 .. HEIGHT - 1) :
        pixel(old, p[2] * WIDTH + p[1]) # pixel(new, p[2] * WIDTH + p[1]) }

\* C30: Draw X,Y,N with x0 = VX mod 64 and y0 = VY mod 32 completes, using
\* screen indices in 0..2047 only, and changes no pixel (x, y) outside
\* x0 <= x < min(x0 + 8, 64), y0 <= y < min(y0 + N, 32).
C30_DrawClipsToRectangle ==
    [][ (op' = "cycle" /\ NextName(chip8) = "Draw")
            => LET i == NextInstruction(chip8)
                   x0 == StartX(chip8, i)
                   y0 == StartY(chip8, i)
               IN  /\ result' = Ok
                   /\ DOMAIN chip8'.screen = 1 .. WIDTH * HEIGHT
                   /\ \A p \in PixelsChanged(chip8.screen, chip8'.screen) :
                          InClippedRectangle(p[1], p[2], x0, y0, i.n) ]_vars

\* C30, the failing case reached: VF := 0, V1 := 0, Draw F,1,2 of the sprite
\* 0xFF 0x81 over the background glyph.  Row 0 at column 0 collides with the
\* glyph, row 1 is placed at column VF = 1 and has switched on the pixel
\* (8, 1), outside the columns 0..7 of the sprite.
C30_Witness ==
    /\ op = "cycle"
    /\ since_load = 6
    /\ program_bytes = DrawProgram(15, 0, 1, 0, 2, << 255, 129 >>)
    /\ result = Ok
    /\ pixel(chip8.frame_handle[2], 1 * WIDTH + 8) = 0
    /\ pixel(chip8.screen, 1 * WIDTH + 8) = 1

\* With X other than 0xF the row-start column is the same for every row and
\* no Draw changes a pixel outside the clipped rectangle.
DrawClipsWhenVxIsNotFlag ==
    [][ (op' = "cycle" /\ NextName(chip8) = "Draw" /\ NextInstruction(chip8).vx # 15)
            => LET i == NextInstruction(chip8)
                   x0 == StartX(chip8, i)
                   y0 == StartY(chip8, i)
               IN  /\ result' = Ok
                   /\ \A p \in PixelsChanged(chip8.screen, chip8'.screen) :
                          InClippedRectangle(p[1], p[2], x0, y0, i.n) ]_vars

\* the bit of the sprite at I that falls on the pixel (x, y) of the clipped
\* rectangle placed at (x0, y0): row y - y0 of the sprite, most significant
\* bit leftmost
SpriteBitAt(self, x, y, x0, y0) ==
    BitAnd(Shr(byte(self.memory, self.index_register + (y - y0)), 7 - (x - x0)), 1)

\* every pixel of the clipped rectangle is the old pixel XOR the sprite bit
XorBlitted(self, new_screen, x0, y0, n) ==
    \A x \in 0 .. WIDTH - 1, y \in 0 .. HEIGHT - 1 :
        InClippedRectangle(x, y, x0, y0, n)
            => pixel(new_screen, y * WIDTH + x)
                 = BitXor(pixel(self.screen, y * WIDTH + x), SpriteBitAt(self, x, y, x0, y0))

\* some pixel went from on to off
SwitchedOff(old, new) ==
    \E p \in PixelsChanged(old, new) : pixel(old, p[2] * WIDTH + p[1]) = 1

\* C31: Draw X,Y,N, for every X and Y in 0..15 (0xF included) and every
\* prior VF, leaves each pixel of the clipped rectangle equal to its old
\* state XOR the corresponding sprite bit (most significant bit leftmost,
\* row r read from memory[I + r]) and leaves VF = 1 if at least one pixel
\* went from on to off, VF = 0 otherwise.
C31_DrawXorBlits ==
    [][ (op' = "cycle" /\ NextName(chip8) = "Draw")
            => LET i == NextInstruction(chip8)
               IN  /\ result' = Ok
                   /\ XorBlitted(chip8, chip8'.screen, StartX(chip8, i), StartY(chip8, i), i.n)
                   /\ chip8'.registers[15]
                        = IF SwitchedOff(chip8.screen, chip8'.screen) THEN 1 ELSE 0 ]_vars

\* C31, the failing case reached: VF := 0, V1 := 0, Draw F,1,2 of the sprite
\* 0xFF 0x81 over the background glyph.  Row 0 collides, row 1 is placed at
\* column VF = 1, and the pixel (0, 1), on before the draw and under a set
\* sprite bit, is still on.
C31_Witness ==
    /\ op = "cycle"
    /\ since_load = 6
    /\ program_bytes = DrawProgram(15, 0, 1, 0, 2, << 255, 129 >>)
    /\ result = Ok
    /\ chip8.registers[15] = 1
    /\ pixel(chip8.frame_handle[2], 1 * WIDTH + 0) = 1
    /\ pixel(chip8.screen, 1 * WIDTH + 0) = 1

\* With X other than 0xF every Draw is the XOR-blit of the sprite and VF
\* tells whether a pixel went from on to off.
DrawXorBlitsWhenVxIsNotFlag ==
    [][ (op' = "cycle" /\ NextName(chip8) = "Draw" /\ NextInstruction(chip8).vx # 15)
            => LET i == NextInstruction(chip8)
               IN  /\ result' = Ok
                   /\ XorBlitted(chip8, chip8'.screen, StartX(chip8, i), StartY(chip8, i), i.n)
                   /\ chip8'.registers[15]
                        = IF SwitchedOff(chip8.screen, chip8'.screen) THEN 1 ELSE 0 ]_vars

(***************************************************************************)
(* Memory at the index register: the programs                              *)
(*     0x200  Annn   I := nnn                                              *)
(*     0x202  60aa   V0 := aa                                              *)
(*     0x204  61bb   V1 := bb                                              *)
(*     0x206  6Fcc   VF := cc                                              *)
(*     0x208  FX55   DumpRegisters X                                       *)
(*     0x20A  60cc   V0 := cc                                              *)
(*     0x20C  61aa   V1 := aa                                              *)
(*     0x20E  6Fbb   VF := bb                                              *)
(*     0x210  FX65   LoadRegisters X                                       *)
(* run from the state after new(), initialize() and load_program(program). *)
(***************************************************************************)
IndexCycles == 9        \* cycle() calls made on a program that uses memory at I

\* the two bytes of Annn for I = 0x300 and I = 0xFF0
IndexOperands == { << 163, 0 >>, << 175, 240 >> }
DumpIndices == { 0, 1, 14, 15 }
DumpValues == { 1, 7, 255 }

DumpLoadProgram(annn, x, a, b, c) ==
    annn \o << 96, a, 97, b, 111, c, 240 + x, 85,
               96, c, 97, a, 111, b, 240 + x, 101 >>

DumpLoadPrograms ==
    { DumpLoadProgram(annn, x, a, b, c) :
        annn \in IndexOperands, x \in DumpIndices,
        a \in DumpValues, b \in DumpValues, c \in DumpValues }

\* Annn; 6Xvv; FX33, BCDToIndex X, for every byte vv
BcdProgram(annn, x, v) == annn \o << 96 + x, v, 240 + x, 51 >>

BcdPrograms ==
    { BcdProgram(annn, x, v) : annn \in IndexOperands, x \in { 0, 15 }, v \in 0 .. 255 }

IndexPrograms == DumpLoadPrograms \cup BcdPrograms

IndexCycle ==
    /\ Alive
    /\ cycle_count < IndexCycles
    /\ CycleStep(0, TRUE, MaxFrames, FALSE)
    /\ UNCHANGED << main, ticks, held_cycles >>

IndexSpec == LoadedInit(IndexPrograms) /\ [][IndexCycle]_vars

\* the memory outside the bytes I .. I + count - 1 is the same in both
MemoryKeptOutside(old, new, I, count) ==
    /\ Bytes(new, 0, I) = Bytes(old, 0, I)
    /\ Bytes(new, I + count, MEMORY_SIZE) = Bytes(old, I + count, MEMORY_SIZE)

\* the value a register holds when a dump-and-load program dumps it
DumpedValue(k) ==
    IF k = 0 THEN program_bytes[4]
    ELSE IF k = 1 THEN program_bytes[6]
    ELSE IF k = 15 THEN program_bytes[8]
    ELSE 0

\* C32: DumpRegisters X writes V0..VX to memory[I..I+X] and changes no other
\* memory byte, no register and not I; LoadRegisters X reads the same X + 1
\* bytes into V0..VX and changes no register above VX, not I and no memory;
\* and after DumpRegisters X, assignments to the registers and LoadRegisters
\* X with the same I, V0..VX hold their dumped values again.
C32_DumpThenLoadRestoresRegisters ==
    /\ [][ (op' = "cycle" /\ NextName(chip8) = "DumpRegisters")
              => LET x == NextInstruction(chip8).vx
                     I == chip8.index_register
                 IN  /\ result' = Ok
                     /\ \A k \in 0 .. x : byte(chip8'.memory, I + k) = chip8.registers[k]
                     /\ MemoryKeptOutside(chip8.memory, chip8'.memory, I, x + 1)
                     /\ chip8'.registers = chip8.registers
                     /\ chip8'.index_register = I ]_vars
    /\ [][ (op' = "cycle" /\ NextName(chip8) = "LoadRegisters")
              => LET x == NextInstruction(chip8).vx
                     I == chip8.index_register
                 IN  /\ result' = Ok
                     /\ \A k \in RegisterIndices :
                            chip8'.registers[k] = IF k <= x THEN byte(chip8.memory, I + k)
                                                  ELSE chip8.registers[k]
                     /\ chip8'.memory = chip8.memory
                     /\ chip8'.index_register = I ]_vars
    /\ [](  (op = "cycle" /\ since_load = 9 /\ run_ok /\ program_bytes \in DumpLoadPrograms)
              => \A k \in 0 .. InstructionOf(program_bytes, 9).instruction.vx :
                      chip8.registers[k] = DumpedValue(k) )

\* C32, the case reached: I := 0x300, V0 := 1, V1 := 7, VF := 255,
\* DumpRegisters 1, V0 := 255, V1 := 1, VF := 7, LoadRegisters 1 has left
\* V0 = 1, V1 = 7 and VF = 7, with 1 and 7 at 0x300 and 0x301.
C32_Witness ==
    /\ op = "cycle"
    /\ since_load = 9
    /\ program_bytes = DumpLoadProgram(<< 163, 0 >>, 1, 1, 7, 255)
    /\ result = Ok
    /\ chip8.registers[0] = 1
    /\ chip8.registers[1] = 7
    /\ chip8.registers[15] = 7
    /\ byte(chip8.memory, 768) = 1
    /\ byte(chip8.memory, 769) = 7
    /\ byte(chip8.memory, 770) = 0

\* C33: BCDToIndex X, for every VX in 0..255, writes memory[I] = VX div 100,
\* memory[I+1] = (VX div 10) mod 10 and memory[I+2] = VX mod 10, so that
\* 100 * memory[I] + 10 * memory[I+1] + memory[I+2] = VX with each written
\* byte in 0..9; I, the registers and all other memory bytes are unchanged.
C33_BcdWritesThreeDecimalDigits ==
    [][ (op' = "cycle" /\ NextName(chip8) = "SetIndexToBinaryCodedVx")
            => LET v == chip8.registers[NextInstruction(chip8).vx]
                   I == chip8.index_register
                   digit(k) == byte(chip8'.memory, I + k)
               IN  /\ result' = Ok
                   /\ digit(0) = v \div 100
                   /\ digit(1) = (v \div 10) % 10
                   /\ digit(2) = v % 10
                   /\ 100 * digit(0) + 10 * digit(1) + digit(2) = v
                   /\ \A k \in 0 .. 2 : digit(k) \in 0 .. 9
                   /\ MemoryKeptOutside(chip8.memory, chip8'.memory, I, 3)
                   /\ chip8'.registers = chip8.registers
                   /\ chip8'.index_register = I ]_vars

\* C33, the case reached: I := 0x300, V0 := 0xFF, BCDToIndex 0 has written
\* 2, 5, 5 at 0x300..0x302.
C33_Witness ==
    /\ op = "cycle"
    /\ since_load = 3
    /\ program_bytes = BcdProgram(<< 163, 0 >>, 0, 255)
    /\ result = Ok
    /\ chip8.registers[0] = 255
    /\ chip8.index_register = 768
    /\ Bytes(chip8.memory, 768, 771) = << 2, 5, 5 >>

(***************************************************************************)
(* Failing cycles.  Words that do not decode: the programs                 *)
(*     0x200  6A07   VA := 7                                               *)
(*     0x202  FA15   delay timer := VA                                     *)
(*     0x204  8008 or 0123                                                 *)
(* and the programs made of the failing word alone, run from the state     *)
(* after new(), initialize() and load_program(program).                    *)
(*                                                                         *)
(* Stack errors.  initialize() leaves the stack pointer at 0x1FF, which    *)
(* push and pop never find equal to STACK_WINDOW_TOP or                    *)
(* STACK_WINDOW_BOTTOM; new() leaves it at 0, and load_program() is        *)
(* accepted without initialize().  The programs                            *)
(*     0x200  2200   Call 0x200                                            *)
(* and                                                                     *)
(*     0x200  6002 61A0 6202 63A0 .. 6E02 6FA0    V0..VF := 02 A0 02 A0 .. *)
(*     0x220  A000 FF55 A010 FF55 .. A1F0 FF55    memory[0..0x1FF] := the  *)
(*                                                word 0x02A0, 256 times   *)
(*     0x2A0  00EE   Return                                                *)
(* are run from the state after new() and load_program(program): PC = 0,   *)
(* stack pointer = 0 and the memory below 0x200 zero, so that the first    *)
(* 256 cycle() calls fetch the word 0x0000 and the next one the word at    *)
(* 0x200.  The Call finds the stack pointer at STACK_WINDOW_TOP; the       *)
(* Return pops the word 0x02A0, its own address, until the stack pointer   *)
(* is STACK_WINDOW_BOTTOM.                                                 *)
(*                                                                         *)
(* The host sends keys and restart requests meanwhile.                     *)
(***************************************************************************)
FaultCycles == 600      \* cycle() calls made on a failing program

\* 0x8008 is no instruction; 0x0123 is a call of a machine code routine
FaultyWords == { << 128, 8 >>, << 1, 35 >> }

FaultPrograms ==
    FaultyWords \cup { << 106, 7, 250, 21 >> \o w : w \in FaultyWords }

\* 0x200: Call 0x200
OverflowProgram == << 34, 0 >>

\* 6iVV for i in 0..15: the even registers := 0x02, the odd ones := 0xA0
SetReturnAddress ==
    [j \in 1 .. 32 |->
        IF j % 2 = 1 THEN 96 + (j - 1) \div 2
        ELSE IF ((j - 1) \div 2) % 2 = 0 THEN 2 ELSE 160]

\* ANNN FF55 for NNN = 0x000, 0x010 .. 0x1F0: 16 registers dumped at NNN
FillStackWindow ==
    [j \in 1 .. 128 |->
        LET nnn == 16 * ((j - 1) \div 4)
        IN  CASE (j - 1) % 4 = 0 -> 160 + nnn \div 256
              [] (j - 1) % 4 = 1 -> nnn % 256
              [] (j - 1) % 4 = 2 -> 255
              [] OTHER -> 85]

\* the Return is at 0x200 + 32 + 128 = 0x2A0
UnderflowProgram == SetReturnAddress \o FillStackWindow \o << 0, 238 >>

StackFaultPrograms == { OverflowProgram, UnderflowProgram }

\* new() and load_program(program), initialize() not called
UninitializedInit(programs) ==
    /\ \E bytes \in programs :
          /\ chip8 = load_program(Chip8_new, bytes).self
          /\ program_bytes = bytes
    /\ op = "load_program"
    /\ result = Ok
    /\ prior_state = "InterpreterMemoryUninitialized"
    /\ initialized = FALSE
    /\ loads = 1
    /\ cycle_count = 0
    /\ since_load = 0
    /\ run_ok = TRUE
    /\ call_stack = << >>
    /\ raw = 0
    /\ decoded = NoInstruction
    /\ main = Main_start
    /\ ticks = 0
    /\ held_cycles = 0

FaultCycle ==
    /\ Alive
    /\ cycle_count < FaultCycles
    /\ CycleStep(0, TRUE, MaxFrames, FALSE)
    /\ UNCHANGED << main, ticks, held_cycles >>

FaultSpec ==
    /\ LoadedInit(FaultPrograms) \/ UninitializedInit(StackFaultPrograms)
    /\ [][(\E msg \in InputMessages : HostSendInput(msg)) \/ FaultCycle]_vars

\* the cycle() call of the step has returned an error of decode or execute
CycleFailed == op' = "cycle" /\ result'.tag = "Err" /\ result' # Err("ProgramNotLoaded")

\* registers, I, stack pointer, memory, screen and timers are the same
MachineKept(old, new) ==
    /\ new.registers = old.registers
    /\ new.index_register = old.index_register
    /\ new.stack_pointer = old.stack_pointer
    /\ new.memory = old.memory
    /\ new.screen = old.screen
    /\ new.delay_timer = old.delay_timer
    /\ new.sound_timer = old.sound_timer

\* the machine a cycle() call starts its fetch from: the one it was called
\* on or, when the call reads a restart request, the one the initialize()
\* of that request leaves
BeforeFetch(self) == IF Restarts(self) THEN initialize(self).self ELSE self

\* the error is one of decoding, or StackOverflow returned to a Call with
\* the stack pointer at STACK_WINDOW_TOP, or StackUnderflow returned to a
\* Return with the stack pointer at STACK_WINDOW_BOTTOM
DecodeOrStackError(self, ret) ==
    LET before == BeforeFetch(self)
        d == Instruction_new(word(before.memory, before.program_counter))
    IN  IF d.tag # "Ok" THEN ret = d
        ELSE \/ /\ d.instruction.name = "Call"
                /\ before.stack_pointer = STACK_WINDOW_TOP
                /\ ret = Err("StackOverflow")
             \/ /\ d.instruction.name = "Return"
                /\ before.stack_pointer = STACK_WINDOW_BOTTOM
                /\ ret = Err("StackUnderflow")

\* C34, as stated: a cycle() that returns an error from decoding or from the
\* stack leaves registers, I, stack pointer, PC, memory, screen and timers
\* as they were before the call.
C34_FailedCycleChangesNothing ==
    [][ CycleFailed
            => /\ MachineKept(chip8, chip8')
               /\ chip8'.program_counter = chip8.program_counter ]_vars

\* C34, amended: a cycle() that returns an error from decoding
\* (ProgramNotCompatible, InvalidInstruction) or from the stack
\* (StackOverflow on Call, StackUnderflow on Return) has applied the failing
\* instruction not at all, but has fetched it: registers, I, stack pointer,
\* memory, screen and timers are the same as before that cycle() call, and
\* PC is 2 more than before it.  When the call has read a restart request,
\* its initialize() has run before the fetch, and "before" is the machine
\* that initialize() left.
C34_FailedCycleOnlyAdvancesPc ==
    [][ CycleFailed
            => /\ DecodeOrStackError(chip8, result')
               /\ MachineKept(BeforeFetch(chip8), chip8')
               /\ chip8'.program_counter = BeforeFetch(chip8).program_counter + 2 ]_vars

\* C34, the case reached: after new() and load_program() of Call 0x200, 256
\* cycle() calls have failed on the word 0x0000 while PC went from 0 to
\* 0x200; the 257th has fetched the Call with the stack pointer at
\* STACK_WINDOW_TOP and returned StackOverflow: nothing is pushed, the stack
\* pointer is still 0, the program is intact and PC = 0x202.
C34_Witness ==
    /\ op = "cycle"
    /\ program_bytes = OverflowProgram
    /\ ~initialized
    /\ cycle_count = 257
    /\ result = Err("StackOverflow")
    /\ chip8.stack_pointer = STACK_WINDOW_TOP
    /\ Bytes(chip8.memory, 0, PROGRAM_OFFSET + 2) = [i \in 1 .. PROGRAM_OFFSET |-> 0] \o OverflowProgram
    /\ chip8.program_counter = PROGRAM_OFFSET + 2

\* A Return with the stack pointer at STACK_WINDOW_BOTTOM: after 255 Returns
\* to 0x2A0 the 256th has returned StackUnderflow, with the stack pointer
\* still at 0x1FE and PC = 0x2A2.
ReturnUnderflows ==
    /\ op = "cycle"
    /\ program_bytes = UnderflowProgram
    /\ result = Err("StackUnderflow")
    /\ chip8.stack_pointer = STACK_WINDOW_BOTTOM
    /\ chip8.program_counter = 674

\* A word that does not decode, after two instructions: VA := 7, delay
\* timer := 7, then the word 0x8008: the third cycle() has returned
\* InvalidInstruction with VA = 7, the timer at 7 and PC = 0x206.
InvalidWordFails ==
    /\ op = "cycle"
    /\ since_load = 3
    /\ program_bytes = << 106, 7, 250, 21, 128, 8 >>
    /\ result = InvalidInstruction(32776)
    /\ chip8.registers[10] = 7
    /\ chip8.delay_timer = 7
    /\ chip8.program_counter = 518

\* A restart request read by a cycle() that then fails: initialize() has
\* emptied the memory from 0x200 on, and the fetch at 0x200 has returned
\* ProgramNotCompatible with PC = 0x202.
RestartCycleFails ==
    /\ op = "cycle"
    /\ prior_state = "ProgramLoaded"
    /\ chip8.emulator_state = "InterpreterMemoryInitialized"
    /\ result = Err("ProgramNotCompatible")
    /\ chip8.program_counter = PROGRAM_OFFSET + 2

\* the font table holds the glyph bytes written by initialize()
FontIntact(memory) ==
    Bytes(memory, FONT_SET_OFFSET, FONT_SET_OFFSET + Len(FONT_SET)) = FONT_SET

\* C35: for every sequence of Call and Return instructions after
\* initialize() and load_program(), the font table at 0x050..0x09F still
\* holds the 80 glyph bytes written by initialize(), and no Call writes a
\* byte at address 0x200 or above.
C35_StackKeepsFontAndProgram ==
    /\ [] FontIntact(chip8.memory)
    /\ [][ (op' = "cycle" /\ NextName(chip8) = "Call")
              => Bytes(chip8'.memory, PROGRAM_OFFSET, MEMORY_SIZE)
                   = Bytes(chip8.memory, PROGRAM_OFFSET, MEMORY_SIZE) ]_vars

\* C35, the failing case reached: 176 nested Calls of the program that calls
\* itself; the last push, at 0x09F, has replaced the last byte of the glyph
\* of F (0x80) by the high byte of the return address 0x0202.
C35_Witness ==
    /\ op = "cycle"
    /\ result = Ok
    /\ program_bytes = SelfCallProgram
    /\ since_load = 176
    /\ chip8.stack_pointer = FONT_SET_OFFSET + Len(FONT_SET) - 1
    /\ FONT_SET[Len(FONT_SET)] = 128
    /\ byte(chip8.memory, FONT_SET_OFFSET + Len(FONT_SET) - 1) = 2

\* No Call writes at 0x200 or above: every push is below the stack pointer
\* set by initialize().
CallKeepsProgramMemory ==
    [][ (op' = "cycle" /\ NextName(chip8) = "Call")
            => Bytes(chip8'.memory, PROGRAM_OFFSET, MEMORY_SIZE)
                 = Bytes(chip8.memory, PROGRAM_OFFSET, MEMORY_SIZE) ]_vars

(***************************************************************************)
(* The end of the memory: the programs                                     *)
(*     Annn; FX55      Annn; FX65      Annn; F033      Annn; D00N          *)
(* with nnn in 0xFFD..0xFFF, and                                           *)
(*     60vv; Bnnn      1FFF                                                *)
(* run from the state after new(), initialize() and load_program(program). *)
(***************************************************************************)
\* the two bytes of Annn for I = 0xFFD, 0xFFE and 0xFFF
EndOperands == { << 175, 253 >>, << 175, 254 >>, << 175, 255 >> }

EndOfMemoryPrograms ==
    { annn \o << 240 + x, k >> : annn \in EndOperands, x \in RegisterIndices, k \in { 85, 101 } }
    \cup { annn \o << 240, 51 >> : annn \in EndOperands }
    \cup { annn \o << 208, n >> : annn \in EndOperands, n \in { 1, 2, 15 } }
    \cup { << 96, v, 191, nn >> : v \in { 0, 1, 255 }, nn \in { 0, 254, 255 } }
    \cup { << 31, 255 >> }

EndOfMemorySpec == LoadedInit(EndOfMemoryPrograms) /\ [][DrawCycle]_vars

\* the memory addresses the next cycle() uses: the two bytes of the fetch
\* and the bytes at I that the fetched instruction reads or writes
CycleAddresses(self) ==
    LET f == Fetched(self)
        pc == self.program_counter
        I == self.index_register
        name == NextName(self)
        count == IF name = "Draw" THEN f.decoded.instruction.n
                 ELSE IF name = "SetIndexToBinaryCodedVx" THEN 3
                 ELSE IF name \in { "DumpRegisters", "LoadRegisters" }
                      THEN f.decoded.instruction.vx + 1
                 ELSE 0
    IN  { pc, pc + 1 } \cup { I + k : k \in 0 .. count - 1 }

\* C36: for every loaded program and every number of cycles, every memory
\* access made by cycle() addresses a byte in 0x000..0xFFF (the fetch at PC
\* and PC + 1, the sprite reads at I + row, the reads and writes at I + i of
\* BCDToIndex, DumpRegisters and LoadRegisters), and cycle() returns, with
\* Ok or an error, instead of indexing out of the 4096-byte array.
C36_AccessesStayInMemory ==
    [][ (op' = "cycle" /\ chip8.emulator_state = "ProgramLoaded")
            => /\ \A a \in CycleAddresses(chip8) : InBounds(a)
               /\ result'.tag # "Panic" ]_vars

\* C36, the failing case reached: Jump 0xFFF, then the fetch at 0xFFF, which
\* indexes the memory at 0x1000; cycle() has not returned.
C36_Witness ==
    /\ op = "cycle"
    /\ program_bytes = << 31, 255 >>
    /\ cycle_count = 2
    /\ chip8.program_counter = MEMORY_SIZE - 1
    /\ ~InBounds(chip8.program_counter + 1)
    /\ result = Panic

(***************************************************************************)
(* Clearing the screen: the programs                                       *)
(*     0x200  A0gg   I := the glyph of a hex digit                         *)
(*     0x202  D00N   draw N rows of it at (0, 0)                           *)
(*     0x204  00E0   clear the screen                                      *)
(*     0x206  D00N   draw again                                            *)
(* run from the state after new(), initialize() and load_program(program), *)
(* with nobody receiving from the frame channel.                           *)
(***************************************************************************)
ClearPrograms ==
    { << 160, FONT_SET_OFFSET + 5 * g, 208, n, 0, 224, 208, n >> :
        g \in 0 .. 15, n \in 1 .. 5 }

ClearSpec == LoadedInit(ClearPrograms) /\ [][DrawCycle]_vars

\* the frame most recently published on the frame channel
LatestFrame == chip8.frame_handle[Len(chip8.frame_handle)]

\* C37: at every cycle boundary after initialize() the frame most recently
\* published on the frame channel equals the current screen, whichever of
\* initialize(), Draw and Clear changed the screen last.
C37_LatestFrameIsTheScreen ==
    chip8.frame_handle # << >> => LatestFrame = chip8.screen

\* C37, the failing case reached: the glyph of 0 has been drawn and the
\* screen cleared; the screen is blank, the newest of the two frames
\* published still shows the glyph.
C37_Witness ==
    /\ op = "cycle"
    /\ result = Ok
    /\ since_load = 3
    /\ program_bytes = << 160, 80, 208, 5, 0, 224, 208, 5 >>
    /\ chip8.screen = Screen_default
    /\ Len(chip8.frame_handle) = 2
    /\ LatestFrame # Screen_default

\* Every initialize() and every Draw publishes the screen it leaves.
DrawPublishesTheScreen ==
    [][ (op' = "cycle" /\ result' = Ok /\ NextName(chip8) = "Draw")
            => /\ Len(chip8'.frame_handle) = Len(chip8.frame_handle) + 1
               /\ chip8'.frame_handle[Len(chip8'.frame_handle)] = chip8'.screen ]_vars

(***************************************************************************)
(* main with its two threads scheduled.  As long as the process runs the   *)
(* game thread, whenever it can take a step, eventually takes one; its     *)
(* steps are disabled once the process has ended, so nothing is asked of   *)
(* it from then on.  While the window is open main eventually takes the    *)
(* step it can take.  When main returns, and how long after that the       *)
(* process ends, is left open: the user may close the window at any loop   *)
(* condition, or never.                                                    *)
(***************************************************************************)
MainLiveSpec ==
    /\ MainSpec
    /\ WF_vars(GameRecv \/ GameLock \/ GameCycle \/ GameUnlock \/ GameUnwind)
    /\ WF_vars(WindowNew \/ RenderClone \/ RenderSend)

\* the signals the game thread has received: those sent and no longer waiting
SignalsReceived == main.rendered - main.rx_frame_finished

\* the cycles run are one batch of CYCLES_PER_FRAME for each signal
\* received, the batch of the last signal being under way while the thread
\* is past its recv
OneBatchPerSignal ==
    main.cycle_count =
        IF main.game = "recv" THEN CYCLES_PER_FRAME * SignalsReceived
        ELSE IF main.game = "lock" THEN CYCLES_PER_FRAME * (SignalsReceived - 1)
        ELSE CYCLES_PER_FRAME * (SignalsReceived - 1) + main.batch

\* the render loop, the window open, is about to take the lock
LockWanted == main.render = "clone" /\ main.rendered < MaxRendered

\* main is in its render loop and a signal it has sent has not been received
SignalWaiting == main.render \in { "clone", "send" } /\ main.rx_frame_finished > 0

\* C38: the game thread never holds the machine mutex while it waits for a
\* frame-finished signal; the game thread runs exactly one batch of
\* CYCLES_PER_FRAME cycles per signal received; and as long as main is in
\* its render loop the two never deadlock: again and again the render loop
\* has taken the lock it wanted and the game thread has received every
\* signal sent, so that a lock wanted is eventually taken and a signal sent
\* is eventually received, unless main returns or panics first.
C38_GameAndRenderNeverDeadlock ==
    /\ [](main.game = "recv" => main.mutex = "free")
    /\ [](main.game # "panicked" => OneBatchPerSignal)
    /\ []<>(~LockWanted /\ ~SignalWaiting)

\* C38, the case reached: the game thread runs its second batch under the
\* lock while the render loop, its second signal sent, waits for the lock
\* to clone the next frame.
C38_Witness ==
    /\ main.game = "loop"
    /\ main.mutex = "game"
    /\ main.batch = 7
    /\ main.cycle_count = CYCLES_PER_FRAME + 7
    /\ main.render = "clone"
    /\ main.rendered = 2
    /\ main.rx_frame_finished = 0

\* C39: load_program() writes only the memory at 0x200..0xFFF and the
\* lifecycle state: the registers, I, PC, the stack pointer, both timers,
\* the pressed key, the screen, the two channels and the memory at
\* 0x000..0x1FF are as they were before the call, so a load_program() made
\* after cycles have run leaves PC where those cycles left it.
C39_LoadProgramWritesProgramMemoryOnly ==
    [][ (op' = "load_program" /\ result'.tag # "Panic")
            => /\ chip8' = [chip8 EXCEPT !.memory = chip8'.memory,
                                         !.emulator_state = chip8'.emulator_state]
               /\ Bytes(chip8'.memory, 0, PROGRAM_OFFSET)
                     = Bytes(chip8.memory, 0, PROGRAM_OFFSET)
               /\ chip8'.registers = chip8.registers
               /\ chip8'.index_register = chip8.index_register
               /\ chip8'.program_counter = chip8.program_counter
               /\ chip8'.stack_pointer = chip8.stack_pointer
               /\ chip8'.delay_timer = chip8.delay_timer
               /\ chip8'.sound_timer = chip8.sound_timer
               /\ chip8'.key_pressed = chip8.key_pressed
               /\ chip8'.screen = chip8.screen ]_vars

\* C39, the case reached: the second image has been loaded after three
\* cycles of the first; VA = 7, I = 0x050, the glyph drawn and PC = 0x206
\* are those of the first program, and the memory holds the second.
C39_Witness ==
    /\ op = "load_program"
    /\ result = Ok
    /\ loads = 2
    /\ program_bytes = ExampleProgram
    /\ Bytes(chip8.memory, PROGRAM_OFFSET, PROGRAM_OFFSET + 6) = ExampleProgram \o << 0, 0 >>
    /\ chip8.program_counter = PROGRAM_OFFSET + 6
    /\ chip8.registers[10] = 7
    /\ chip8.index_register = FONT_SET_OFFSET
    /\ chip8.screen # Screen_default

(***************************************************************************)
(* The channel ends.  The machine is built by Chip8::new, with the host    *)
(* holding the Receiver of the frame channel and the Sender of the input   *)
(* channel, or by Chip8::default, with no handle at all; the host may drop *)
(* either of its ends at any time.  Dropping the Receiver discards the     *)
(* frames waiting in the channel; the messages waiting in the input        *)
(* channel outlive their Sender.                                           *)
(***************************************************************************)
HostDropFrameReceiver ==
    /\ Alive
    /\ chip8.frame_peer = "Connected"
    /\ chip8' = [chip8 EXCEPT !.frame_peer = "Disconnected", !.frame_handle = << >>]
    /\ op' = "host_drop_frame_receiver"
    /\ UNCHANGED << result, prior_state, initialized, program_bytes, loads,
                    cycle_count, since_load, run_ok, call_stack, raw, decoded, main,
                    ticks, held_cycles >>

HostDropInputSender ==
    /\ Alive
    /\ chip8.input_peer = "Connected"
    /\ chip8' = [chip8 EXCEPT !.input_peer = "Disconnected"]
    /\ op' = "host_drop_input_sender"
    /\ UNCHANGED << result, prior_state, initialized, program_bytes, loads,
                    cycle_count, since_load, run_ok, call_stack, raw, decoded, main,
                    ticks, held_cycles >>

ChannelSpec ==
    /\ chip8 \in { Chip8_new, Chip8_default }
    /\ op = "new"
    /\ result = Ok
    /\ prior_state = "InterpreterMemoryUninitialized"
    /\ initialized = FALSE
    /\ program_bytes = << >>
    /\ loads = 0
    /\ cycle_count = 0
    /\ since_load = 0
    /\ run_ok = TRUE
    /\ call_stack = << >>
    /\ raw = 0
    /\ decoded = NoInstruction
    /\ main = Main_start
    /\ ticks = 0
    /\ held_cycles = 0
    /\ [][Next \/ HostDropFrameReceiver \/ HostDropInputSender]_vars

\* cycle() is about to call try_recv(), no message is waiting and the host
\* has dropped its Sender
InputDisconnected(self) ==
    /\ self.emulator_state = "ProgramLoaded"
    /\ self.input_peer = "Disconnected"
    /\ self.input_handle = << >>

\* A frame is sent by initialize(), also by the one a restart message
\* makes, and by every Draw whose sprite rows are read inside the memory.
SendsFrame(self) ==
    IF self.emulator_state # "ProgramLoaded" \/ InputDisconnected(self) THEN FALSE
    ELSE Restarts(self) \/ (NextName(self) = "Draw" /\ NextInstruction(self).n = 0)
                        \/ (NextName(self) = "Draw"
                              /\ InBounds(Fetched(self).self.index_register
                                            + NextInstruction(self).n - 1))

\* initialize(): with the Receiver dropped the call panics; with no frame
\* handle it returns Ok and queues nothing; otherwise it queues the blank
\* screen.
InitializeFollowsTheFrameChannel ==
    [][ op' = "initialize"
            => /\ chip8.frame_peer = "Disconnected" <=> result' = Panic
               /\ chip8.frame_peer = "None"
                     => result' = Ok /\ chip8'.frame_handle = << >>
               /\ chip8.frame_peer = "Connected"
                     => /\ result' = Ok
                        /\ chip8'.frame_handle = Append(chip8.frame_handle, Screen_default) ]_vars

\* cycle(): with no message waiting and the Sender dropped try_recv()
\* answers Disconnected and the call panics; with no input handle the
\* messages are not looked at and the key stays as it is.
CycleFollowsTheInputChannel ==
    [][ (op' = "cycle" /\ chip8.emulator_state = "ProgramLoaded")
            => /\ InputDisconnected(chip8) => result' = Panic
               /\ chip8.input_peer = "None"
                     => /\ chip8'.input_handle = chip8.input_handle
                        /\ result' = Ok /\ NextName(chip8) # "AwaitKey"
                              => chip8'.key_pressed = chip8.key_pressed ]_vars

\* cycle() on a step that sends a frame: with the Receiver dropped the call
\* panics; with no frame handle nothing is queued and with the Receiver
\* held one frame is, and neither makes the call panic.
CycleFollowsTheFrameChannel ==
    [][ (op' = "cycle" /\ SendsFrame(chip8))
            => /\ chip8.frame_peer = "Disconnected" => result' = Panic
               /\ chip8.frame_peer = "None"
                     => result' # Panic /\ chip8'.frame_handle = << >>
               /\ chip8.frame_peer = "Connected"
                     => /\ result' # Panic
                        /\ Len(chip8'.frame_handle) = Len(chip8.frame_handle) + 1 ]_vars

\* The cases reached: a Draw that panics on the dropped Receiver, a Draw
\* made without a frame handle, and a cycle() that panics on the dropped
\* Sender.
DrawPanicsWithoutReceiver ==
    /\ op = "cycle"
    /\ result = Panic
    /\ chip8.frame_peer = "Disconnected"
    /\ NextName([chip8 EXCEPT !.input_handle = << >>, !.input_peer = "None"]) = "Draw"

DrawWithoutFrameHandle ==
    /\ op = "cycle"
    /\ result = Ok
    /\ chip8.frame_peer = "None"
    /\ chip8.screen # Screen_default
    /\ chip8.frame_handle = << >>

CyclePanicsWithoutSender ==
    /\ op = "cycle"
    /\ result = Panic
    /\ InputDisconnected(chip8)

(***************************************************************************)
(* main with any ROM, those whose cycle fails included: the unwrap() in    *)
(* the game thread then panics under the lock, and main panics at its next *)
(* lock(), or at its next send() when the thread has been unwound by then. *)
(***************************************************************************)
MainFaultSpec == LoadedInit(FaultPrograms \cup MainPrograms) /\ [][MainNext]_vars

\* The mutex is poisoned only by a panic of the game thread; the Receiver
\* is dropped only by that thread's unwinding, and once it is gone no
\* signal is queued and no frame is counted.
NoSignalAfterReceiverDrop ==
    /\ [](main.mutex = "poisoned" => main.game = "panicked")
    /\ [](~main.rx_alive => main.game = "panicked" /\ main.rx_frame_finished = 0)
    /\ [][ ~main.rx_alive
              => /\ main'.rx_frame_finished = main.rx_frame_finished
                 /\ main'.rendered = main.rendered
                 /\ main'.render \in { main.render, "panicked", "exited" } ]_vars

\* The cases reached: main panics in send(), the Receiver dropped between
\* the clone and the send; main panics in lock(); a send() made after the
\* mutex was poisoned and before the Receiver was dropped succeeds; the
\* game thread, waiting for a signal, panics after main has returned,
\* holding no guard.
SendPanicsAfterReceiverDrop ==
    /\ op = "render_send"
    /\ main.render = "panicked"
    /\ ~main.rx_alive

LockPanicsAfterGamePanic ==
    /\ op = "render_clone"
    /\ main.render = "panicked"
    /\ main.mutex = "poisoned"

SendSucceedsAfterPoison ==
    /\ op = "render_send"
    /\ main.game = "panicked"
    /\ main.mutex = "poisoned"
    /\ main.rx_alive
    /\ main.render = "clone"
    /\ main.rendered = 2
    /\ main.rx_frame_finished = 1

GamePanicsAfterMainExit ==
    /\ op = "game_recv"
    /\ main.game = "panicked"
    /\ main.mutex = "free"
    /\ main.render = "exited"
    /\ main.rendered = 0

=============================================================================
